---- MODULE Spec2Model ----
(***************************************************************************)
(* The Path Map of hubfs' union file system (pathmap.go, pathkey.go):      *)
(* the in-memory visibility map with its dirty list, the transaction log   *)
(* (chunks of 16-byte records with a cumulative hash), replay, Write       *)
(* (incremental and compacting), Purge, and the two locks.                 *)
(*                                                                         *)
(* Abstractions.  SHA-256 is collision free here: the digest of a byte     *)
(* string is the string itself (a path for a key, the sequence of records  *)
(* for a transaction hash).  A 16-byte record is its byte 0 (kept as a     *)
(* number, with the 0x80 bit) and its bytes 1..15 (kept as fields).  A     *)
(* path is a sequence of one-character strings.                            *)
(***************************************************************************)
EXTENDS Integers, Sequences, FiniteSets, TLC

VARIABLES
    vm,       \* pm.vm: visibility map, a function from the present keys to cells
    dl,       \* pm.dl: dirty list, a sequence of keys
    ofs,      \* pm.ofs: path map file offset, in bytes
    file,     \* the backing file: [recs: whole 16-byte records, tail: a partial one]
    last,     \* the last call that returned and what it returned (observation only)
    hist,     \* the calls since OpenPathmap, as a phase (observation only)
    txns,     \* the transactions successful Writes put in the file (observation only)
    fails,    \* the storage calls that failed so far
    writes,   \* the calls of Write so far
    writemux, \* pm.writemux: 0 when free, else the thread holding it
    lock,     \* pm.Mutex (the map lock) between steps: "free", or "client" when a
              \* client holds it around its calls
    th        \* the threads that call Write: where each is in Write, and its locals

vars == <<vm, dl, ofs, file, last, hist, txns, fails, writes, writemux, lock, th>>

(***************************************************************************)
(* Constants of pathkey.go and pathmap.go                                  *)
(***************************************************************************)
Pathkeylen == 16
_DIRT == 128
_MASK == 127
UNKNOWN == _MASK - 0
OPAQUE == _MASK - 1
WHITEOUT == _MASK - 2
NOTEXIST == _MASK - 3
_MAXVIS == OPAQUE
_MAXIDX == NOTEXIST

\* ASCII codes of the chunk indicators and commands
Chunk1 == 49
Chunk0 == 48
CmdP == 80
CmdS == 83
CmdA == 65

\* errno values of cgofuse used by Write
EIO == 5
EPERM == 1
ENOSYS == 38

Min(a, b) == IF a < b THEN a ELSE b

\* v & _MASK and v & _DIRT for a byte v
Mask(v) == v % 128
Dirt(v) == (v \div 128) * 128

(***************************************************************************)
(* Bounds of the model                                                     *)
(***************************************************************************)
\* 4096 in the source (the records a chunk buffer holds, header included)
BufRecs == 2
\* 1024 in the source (the record count a log must exceed to count as bloated)
BloatMin == 2
\* the log is not grown past this many records
MaxRecs == 6
\* the calls of Write in a run
MaxWrites == 3
\* the storage calls that fail in a run
MaxFails == 1

(***************************************************************************)
(* Keys                                                                    *)
(***************************************************************************)
\* ComputePathkey: byte 0 is zero, bytes 1.. are the digest of the path
ComputePathkey(path) == <<0, path>>

\* PathkeyHash: the running hash is the bytes written so far
NewPathkeyHash == <<>>
PathkeyHashWrite(h, s) == h \o s
PathkeyHashComputePathkey(h) == <<0, h>>

\* path[j:i] of Go (0-based, i exclusive)
Slice(path, j, i) == SubSeq(path, j + 1, i)

\* the end of the run of '/' (slash = TRUE) or of non-'/' bytes that starts at i
RECURSIVE RunEnd(_, _, _)
RunEnd(path, i, slash) ==
    IF Len(path) > i /\ ((path[i + 1] = "/") = slash)
    THEN RunEnd(path, i + 1, slash)
    ELSE i

\* a lookup that forgets the opaque directories met before
LookupOwn(m, k, r) ==
    IF k \in DOMAIN m
    THEN [isopq |-> OPAQUE = Mask(m[k]), v |-> m[k], ok |-> TRUE]
    ELSE [isopq |-> FALSE, v |-> 0, ok |-> FALSE]

\* one map lookup of Get: v, ok = pm.vm[k]; isopq = isopq || OPAQUE == v&_MASK
Lookup(m, k, r) ==
    IF k \in DOMAIN m
    THEN [isopq |-> r.isopq \/ (OPAQUE = Mask(m[k])), v |-> m[k], ok |-> TRUE]
    ELSE [isopq |-> r.isopq, v |-> 0, ok |-> FALSE]

\* the loop of Get from position i with hash state h and result so far r
RECURSIVE GetLoop(_, _, _, _, _)
GetLoop(m, path, i, h, r) ==
    LET i1 == RunEnd(path, i, TRUE) IN
    IF i1 = i THEN r
    ELSE
        LET h1 == PathkeyHashWrite(h, Slice(path, i, i1))
            r1 == IF i = 0 THEN Lookup(m, PathkeyHashComputePathkey(h1), r) ELSE r
            i2 == RunEnd(path, i1, FALSE)
        IN  IF i2 = i1 THEN r1
            ELSE
                LET h2 == PathkeyHashWrite(h1, Slice(path, i1, i2))
                    r2 == Lookup(m, PathkeyHashComputePathkey(h2), r1)
                IN  GetLoop(m, path, i2, h2, r2)

\* a Get that reports OPAQUE as it is stored
GetRaw(m, path) ==
    LET r == GetLoop(m, path, 0, NewPathkeyHash, [isopq |-> FALSE, v |-> 0, ok |-> FALSE])
    IN  IF ~r.ok THEN [isopq |-> r.isopq, v |-> UNKNOWN]
        ELSE [isopq |-> r.isopq, v |-> Mask(r.v)]

\* Pathmap.Get: (isopq, v)
Get(m, path) ==
    LET r == GetLoop(m, path, 0, NewPathkeyHash, [isopq |-> FALSE, v |-> 0, ok |-> FALSE])
    IN  IF ~r.ok THEN [isopq |-> r.isopq, v |-> UNKNOWN]
        ELSE [isopq |-> r.isopq, v |-> IF Mask(r.v) = OPAQUE THEN 0 ELSE Mask(r.v)]

\* a TryGet that returns the cell with its DIRT bit
TryGetUnmasked(m, path) ==
    LET k == ComputePathkey(path)
    IN  IF k \in DOMAIN m THEN [v |-> m[k], ok |-> TRUE]
        ELSE [v |-> 0, ok |-> FALSE]

\* Pathmap.TryGet: (v, ok)
TryGet(m, path) ==
    LET k == ComputePathkey(path)
    IN  IF k \in DOMAIN m THEN [v |-> Mask(m[k]), ok |-> TRUE]
        ELSE [v |-> 0, ok |-> FALSE]

\* Pathmap.IsDirty
IsDirty(m, path) ==
    LET k == ComputePathkey(path)
    IN  k \in DOMAIN m /\ Dirt(m[k]) # 0

\* m with m[k] = c
MapPut(m, k, c) == [x \in DOMAIN m \cup {k} |-> IF x = k THEN c ELSE m[x]]
\* m without the keys of ks
MapDel(m, ks) == [x \in DOMAIN m \ ks |-> m[x]]

\* the kind of set(): index values collapse to UNKNOWN
SetKind(x) == IF _MAXIDX >= Mask(x) THEN UNKNOWN ELSE Mask(x)

\* the _DIRT bit set() computes for old cell u and new value v
SetDirt(u, v) ==
    IF Dirt(u) # 0 THEN Dirt(u)
    ELSE IF SetKind(u) # SetKind(v) THEN _DIRT ELSE 0

\* Pathmap.set: the new (vm, dl)
set(m, d, k, u, v) ==
    LET dirt == SetDirt(u, v)
    IN  [vm |-> MapPut(m, k, dirt + v),
         dl |-> IF Dirt(u) # dirt THEN Append(d, k) ELSE d]

(***************************************************************************)
(* The backing file and the storage back end                               *)
(***************************************************************************)
\* a header record: indicator, command, rcount, hash
Header(chi, cmd, cnt, sum) == [b0 |-> chi, cmd |-> cmd, cnt |-> cnt, sum |-> sum]
\* a data record: the key with k[0] = _DIRT | v
DataRec(k, v) == [b0 |-> _DIRT + Mask(v), key |-> k[2]]
\* a record of zero bytes (a hole of the file)
ZeroRec == [b0 |-> 0, zero |-> TRUE]

RECURSIVE Zeros(_)
Zeros(n) == IF n <= 0 THEN <<>> ELSE <<ZeroRec>> \o Zeros(n - 1)

EmptyFile == [recs |-> <<>>, tail |-> <<>>]

\* the length of the file in bytes
FileLen(F) ==
    Pathkeylen * Len(F.recs) + (IF F.tail = <<>> THEN 0 ELSE F.tail[1].len)

\* fs.Write of the whole records rs at byte offset o (a multiple of 16)
FsWrite(F, rs, o) ==
    LET p == o \div Pathkeylen
        n == Len(F.recs)
        pad == IF F.tail = <<>> THEN Zeros(p - n)
               ELSE <<[b0 |-> F.tail[1].b0, zero |-> TRUE]>> \o Zeros(p - n - 1)
        pre == IF p <= n THEN SubSeq(F.recs, 1, p) ELSE F.recs \o pad
        post == SubSeq(F.recs, p + Len(rs) + 1, n)
    IN  IF rs = <<>> THEN F
        ELSE [recs |-> pre \o rs \o post,
              tail |-> IF p + Len(rs) > n THEN <<>> ELSE F.tail]

\* fs.Truncate to byte length o (a multiple of 16)
FsTruncate(F, o) ==
    LET p == o \div Pathkeylen
        n == Len(F.recs)
    IN  IF p < n THEN [recs |-> SubSeq(F.recs, 1, p), tail |-> <<>>]
        ELSE IF p = n THEN [recs |-> F.recs, tail |-> <<>>]
        ELSE [recs |-> F.recs \o Zeros(p - n), tail |-> <<>>]

\* the file cut to its first L bytes (a crash in the middle of the log)
Cut(F, L) ==
    LET p == L \div Pathkeylen
        r == L % Pathkeylen
        n == Len(F.recs)
    IN  IF L >= FileLen(F) THEN F
        ELSE IF r = 0 THEN [recs |-> SubSeq(F.recs, 1, p), tail |-> <<>>]
        ELSE [recs |-> SubSeq(F.recs, 1, p),
              tail |-> <<[b0 |-> IF p < n THEN F.recs[p + 1].b0 ELSE F.tail[1].b0,
                          len |-> r]>>]

\* the byte lengths a crash may leave: every record boundary, and 1 and 15 bytes
\* into every record
CutOffset(F, L) ==
    /\ 0 <= L /\ L <= FileLen(F)
    /\ L % Pathkeylen \in {0, 1, Pathkeylen - 1}

(***************************************************************************)
(* Replay: _pathmapRead, readTransaction, read                             *)
(***************************************************************************)
\* _pathmapRead(rdr, rec) when avail bytes are left in the file and want =
\* len(rec): 0 at EOF and on a short read, else the bytes read
_pathmapRead(avail, want) ==
    IF avail = 0 THEN 0
    ELSE IF want # Min(avail, want) THEN 0
    ELSE Min(avail, want)

\* the bytes of the file from record position pos on, and past its byte 0
Avail0(F, pos) ==
    IF pos < Len(F.recs) THEN Pathkeylen
    ELSE IF pos = Len(F.recs) /\ F.tail # <<>> THEN F.tail[1].len
    ELSE 0
Byte0(F, pos) ==
    IF pos < Len(F.recs) THEN F.recs[pos + 1].b0 ELSE F.tail[1].b0
\* _pathmapRead(rdr, k[:1]) and _pathmapRead(rdr, k[1:]) at record position pos
ReadK0(F, pos) == _pathmapRead(Avail0(F, pos), 1)
ReadK1(F, pos) == _pathmapRead(Avail0(F, pos) - 1, Pathkeylen - 1)

\* k[1] of a record read as a header
CmdOf(rec) == IF "cmd" \in DOMAIN rec THEN rec.cmd ELSE 0
IsCmd(cmd) == cmd \in {CmdP, CmdS, CmdA}

\* a commit that ignores the delete records
ApplyRecInsertOnly(m, k, v) ==
    IF v \in {WHITEOUT, OPAQUE} THEN MapPut(m, k, v) ELSE m

\* a commit that deletes the key of a record with an index value
ApplyRecIndexDeletes(m, k, v) ==
    IF v \in {WHITEOUT, OPAQUE} THEN MapPut(m, k, v) ELSE MapDel(m, {k})

\* the switch that applies one record of a valid transaction at commit
ApplyRec(m, k, v) ==
    IF v \in {WHITEOUT, OPAQUE} THEN MapPut(m, k, v)
    ELSE IF v = NOTEXIST THEN MapDel(m, {k})
    ELSE m

RECURSIVE ApplyTmp(_, _, _)
ApplyTmp(m, tmp, ks) ==
    IF ks = {} THEN m
    ELSE LET k == CHOOSE x \in ks : TRUE
         IN  ApplyTmp(ApplyRec(m, k, tmp[k]), tmp, ks \ {k})

\* the commit of readTransaction: 'S' starts from an empty map, 'A' from pm.vm
Commit(m, cmd, tmp) ==
    ApplyTmp(IF cmd = CmdS THEN <<>> ELSE m, tmp, DOMAIN tmp)

\* the record loop of a chunk: reads up to cnt records into tmp
RECURSIVE ReadRecs(_, _, _, _)
ReadRecs(F, s, cnt, idx) ==
    IF ~(cnt > idx) THEN [s EXCEPT !.n = 1, !.idx = idx]
    ELSE IF 0 >= ReadK0(F, s.pos) THEN [s EXCEPT !.n = ReadK0(F, s.pos), !.idx = idx]
    ELSE IF Dirt(Byte0(F, s.pos)) = 0 THEN [s EXCEPT !.n = 1, !.idx = idx]
    ELSE IF 0 >= ReadK1(F, s.pos) THEN [s EXCEPT !.n = ReadK1(F, s.pos), !.idx = idx]
    ELSE LET rec == F.recs[s.pos + 1]
         IN  ReadRecs(F,
                      [s EXCEPT !.pos = s.pos + 1,
                                !.ofs = s.ofs + Pathkeylen,
                                !.hsh = Append(s.hsh, rec),
                                !.tmp = MapPut(s.tmp, <<0, rec.key>>, Mask(rec.b0))],
                      cnt, idx + 1)

\* whether the 16 bytes k are the chunk header readTransaction expects
IsExpectedHeader(ch1, k) ==
    IF ~ch1 THEN k.b0 = Chunk1 /\ IsCmd(CmdOf(k))
    ELSE k.b0 = Chunk0 /\ IsCmd(CmdOf(k))

\* a validation that forgets the chunks before this one
ChunkValidLast(equ, cnt, idx, sum, hsh) == cnt = idx /\ sum = hsh

\* a validation that accepts every chunk
ChunkValidAlways(equ, cnt, idx, sum, hsh) == TRUE

\* whether the chunks read so far are valid: equ && (cnt == idx && sum == hash)
ChunkValid(equ, cnt, idx, sum, hsh) == equ /\ (cnt = idx /\ sum = hsh)

\* an abort that leaves the reader behind the record of the '1' it found
SkipAbort(s) == [s EXCEPT !.n = 1, !.pos = s.pos + 1, !.ofs = s.ofs + Pathkeylen]

\* found unexpected chunk 1: rdr.UnreadByte() and return 1
UnreadAbort(s) == [s EXCEPT !.n = 1]

\* readTransaction from reader state s: [n, pos, ofs, vm, ...]
RECURSIVE ReadLoop(_, _)
ReadLoop(F, s) ==
    IF 0 >= ReadK0(F, s.pos) THEN [s EXCEPT !.n = ReadK0(F, s.pos)]
    ELSE IF s.ch1 /\ Byte0(F, s.pos) = Chunk1 THEN UnreadAbort(s)
    ELSE IF 0 >= ReadK1(F, s.pos) THEN [s EXCEPT !.n = ReadK1(F, s.pos)]
    ELSE
        LET k == F.recs[s.pos + 1]
            cmd == CmdOf(k)
            s1 == [s EXCEPT !.pos = s.pos + 1, !.ofs = s.ofs + Pathkeylen]
        IN  IF ~IsExpectedHeader(s.ch1, k)
            THEN IF ~s.ch1 THEN ReadLoop(F, s1) ELSE [s1 EXCEPT !.n = 1]
            ELSE
                LET s2 == ReadRecs(F, [s1 EXCEPT !.ch1 = TRUE], k.cnt, 0)
                    equ == ChunkValid(s2.equ, k.cnt, s2.idx, k.sum, s2.hsh)
                IN  IF 0 >= s2.n THEN s2
                    ELSE IF cmd \in {CmdS, CmdA}
                    THEN [s2 EXCEPT !.n = 1,
                                    !.vm = IF equ THEN Commit(s2.vm, cmd, s2.tmp)
                                           ELSE s2.vm]
                    ELSE ReadLoop(F, [s2 EXCEPT !.equ = equ])

readTransaction(F, pos, o, m) ==
    ReadLoop(F, [n |-> 1, pos |-> pos, ofs |-> o, vm |-> m, tmp |-> <<>>,
                 hsh |-> <<>>, ch1 |-> FALSE, equ |-> TRUE, idx |-> 0])

\* Pathmap.read: readTransaction until it returns 0 (or an error); [n, ofs, vm]
RECURSIVE ReadAll(_, _, _, _)
ReadAll(F, pos, o, m) ==
    LET t == readTransaction(F, pos, o, m)
    IN  IF 0 > t.n THEN [n |-> t.n, ofs |-> t.ofs, vm |-> t.vm]
        ELSE IF 0 = t.n THEN [n |-> 1, ofs |-> t.ofs, vm |-> t.vm]
        ELSE ReadAll(F, t.pos, t.ofs, t.vm)

read(F) == ReadAll(F, 0, 0, <<>>)

(***************************************************************************)
(* Write: writeBegin, writeEnd, writeTransaction                           *)
(***************************************************************************)
\* a writeBegin that writes the cell of every dirty key, whatever its kind
BeginIncRecCell(v) == v
\* a writeBegin that writes every dirty key as deleted
BeginIncRecDeletes(v) == NOTEXIST
\* the record writeBegin puts in vm_out for a dirty key with cell v (incremental)
BeginIncRec(v) ==
    IF Mask(v) \in {WHITEOUT, OPAQUE} THEN v ELSE NOTEXIST

\* the keys of the dirty list
Range(d) == {d[i] : i \in DOMAIN d}

\* the cell of k, the zero value when k is absent (v := pm.vm[k])
CellOf(m, k) == IF k \in DOMAIN m THEN m[k] ELSE 0

\* writeBegin(incremental): [out: the map to write, vm, dl]; the loop over pm.dl
RECURSIVE writeBeginIncLoop(_, _, _)
writeBeginIncLoop(d, m, out) ==
    IF d = <<>> THEN [out |-> out, vm |-> m, dl |-> <<>>]
    ELSE LET k == Head(d)
             v == CellOf(m, k)
         IN  writeBeginIncLoop(Tail(d), MapPut(m, k, Mask(v)),
                               MapPut(out, k, BeginIncRec(v)))

writeBeginInc(m, d) == writeBeginIncLoop(d, m, <<>>)

\* a full writeBegin that emits only the dirty cells
writeBeginFullDirty(m, d) ==
    [out |-> [k \in {x \in DOMAIN m : m[x] \in {_DIRT + WHITEOUT, _DIRT + OPAQUE}}
                 |-> m[k]],
     vm  |-> [k \in DOMAIN m |-> Mask(m[k])],
     dl  |-> <<>>]

writeBeginFull(m, d) ==
    [out |-> [k \in {x \in DOMAIN m : Mask(m[x]) \in {WHITEOUT, OPAQUE}} |-> m[k]],
     vm  |-> [k \in DOMAIN m |-> Mask(m[k])],
     dl  |-> <<>>]

\* a writeBegin that leaves the _DIRT bits of the cells set
writeBeginKeepsDirt(incremental, m, d) ==
    [out |-> IF incremental THEN writeBeginInc(m, d).out ELSE writeBeginFull(m, d).out,
     vm |-> m, dl |-> <<>>]

\* a writeBegin that does not empty the dirty list
writeBeginKeepsList(incremental, m, d) ==
    [out |-> IF incremental THEN writeBeginInc(m, d).out ELSE writeBeginFull(m, d).out,
     vm  |-> IF incremental THEN writeBeginInc(m, d).vm ELSE writeBeginFull(m, d).vm,
     dl  |-> d]

writeBegin(incremental, m, d) ==
    IF incremental THEN writeBeginInc(m, d) ELSE writeBeginFull(m, d)

\* whether the failure branch of writeEnd re-dirties key k of vm_out
EndRedirty(out, m, k) ==
    Dirt(out[k]) # 0 /\ Dirt(CellOf(m, k)) = 0

\* the failure branch of writeEnd, visiting vm_out in the order ks: [vm, dl]
RECURSIVE writeEndFail(_, _, _, _)
writeEndFail(out, m, d, ks) ==
    IF ks = <<>> THEN [vm |-> m, dl |-> d]
    ELSE LET k == Head(ks)
         IN  IF EndRedirty(out, m, k)
             THEN writeEndFail(out, MapPut(m, k, _DIRT + CellOf(m, k)),
                               Append(d, k), Tail(ks))
             ELSE writeEndFail(out, m, d, Tail(ks))

\* a writeEnd that leaves pm.ofs as it is after a successful transaction
writeEndKeepsOfs(n, o, out, m, d, pmofs, ks) ==
    IF 0 > n
    THEN LET e == writeEndFail(out, m, d, ks)
         IN  [vm |-> e.vm, dl |-> e.dl, ofs |-> pmofs]
    ELSE [vm |-> m, dl |-> d, ofs |-> pmofs]

\* writeEnd(n, ofs, vm_out): [vm, dl, ofs]
writeEnd(n, o, out, m, d, pmofs, ks) ==
    IF 0 < n THEN [vm |-> m, dl |-> d, ofs |-> o]
    ELSE IF 0 > n
    THEN LET e == writeEndFail(out, m, d, ks)
         IN  [vm |-> e.vm, dl |-> e.dl, ofs |-> pmofs]
    ELSE [vm |-> m, dl |-> d, ofs |-> pmofs]

\* the orders in which a range loop may visit the keys S of a Go map
RECURSIVE KeyOrders(_)
KeyOrders(S) ==
    IF S = {} THEN {<<>>}
    ELSE UNION {{<<x>> \o q : q \in KeyOrders(S \ {x})} : x \in S}

\* the data records of vm_out in the order ks
RECURSIVE DataRecs(_, _)
DataRecs(out, ks) ==
    IF ks = <<>> THEN <<>>
    ELSE <<DataRec(Head(ks), out[Head(ks)])>> \o DataRecs(out, Tail(ks))

\* a buffer that takes one more data record before it is flushed
BufFullLate(n) == BufRecs <= n

\* len(buf) <= ptr: the buffer of BufRecs records, the header included, is full
\* when it holds n data records
BufFull(n) == BufRecs <= n + 1

\* the chunks writeTransaction emits for the data records rs: the loop over vm_out
\* flushes a full buffer with 'P', what is left goes out with the final command.
\* buf holds the data records of the current chunk, sum those of earlier chunks.
RECURSIVE ChunkLoop(_, _, _, _, _)
ChunkLoop(rs, buf, chi, sum, final) ==
    IF rs = <<>>
    THEN IF Len(buf) > 0
         THEN <<(<<Header(chi, final, Len(buf), sum \o buf)>> \o buf)>>
         ELSE <<>>
    ELSE IF BufFull(Len(buf))
    THEN <<(<<Header(chi, CmdP, Len(buf), sum \o buf)>> \o buf)>>
         \o ChunkLoop(Tail(rs), <<Head(rs)>>, Chunk0, sum \o buf, final)
    ELSE ChunkLoop(Tail(rs), Append(buf, Head(rs)), chi, sum, final)

\* a writeTransaction that ends every transaction with 'A'
ChunksAlwaysAdd(rs, incremental) == ChunkLoop(rs, <<>>, Chunk1, <<>>, CmdA)

Chunks(rs, incremental) ==
    ChunkLoop(rs, <<>>, Chunk1, <<>>, IF incremental THEN CmdA ELSE CmdS)

\* the error codes a failing storage call returns
ErrCodes == {EIO, EPERM}

\* What fs.Write may return for a chunk of len records: all of it written, a
\* negative errno, or a short count; got is the records that reached the file.
WriteOutcomes(len) ==
    {[res |-> Pathkeylen * len, got |-> len]}
    \cup {[res |-> 0 - e, got |-> g] : e \in ErrCodes, g \in 0..(len - 1)}
    \cup {[res |-> Pathkeylen * g, got |-> g] : g \in 0..(len - 1)}
WriteOk(len) == {[res |-> Pathkeylen * len, got |-> len]}

\* what fs.Fsync and fs.Truncate may return
FsyncOutcomes == {0, 0 - ENOSYS} \cup {0 - e : e \in ErrCodes}
TruncateOutcomes == {0} \cup {0 - e : e \in ErrCodes}

\* the return value of the write closure for what fs.Write returned
WriteClosureRes(res, len) ==
    IF 0 > res THEN res
    ELSE IF Pathkeylen * len # res THEN 0 - EIO
    ELSE res

\* a writeTransaction that returns every code but 0 that fs.Fsync returned
FsyncFailsEnosys(errc) == 0 # errc

\* whether writeTransaction returns errc after fs.Fsync returned it
FsyncFails(errc) == 0 # errc /\ (0 - ENOSYS) # errc

\* a bloat test that only compacts when a key is dirty
IsFullWhenDirty(o, m) ==
    LET cnt == o \div Pathkeylen
    IN  BloatMin < cnt /\ 2 * Cardinality(DOMAIN m) < cnt
        /\ \E k \in DOMAIN m : m[k] >= _DIRT

\* the bloat test of Write
IsFull(o, m) ==
    LET cnt == o \div Pathkeylen
    IN  BloatMin < cnt /\ 2 * Cardinality(DOMAIN m) < cnt

\* the incremental flag of the first writeTransaction call of Write
FirstIncremental(full) == IF full THEN FALSE ELSE TRUE

\* Pathmap.Purge: the map without its clean cells that are not WHITEOUT or OPAQUE
\* a Purge that drops dirty cells too
PurgeKeepsDurable(v) == Mask(v) \in {WHITEOUT, OPAQUE}
\* a Purge that keeps the clean NOTEXIST cells too
PurgeKeepsNotexist(v) == Dirt(v) # 0 \/ v \in {WHITEOUT, OPAQUE, NOTEXIST}
PurgeKeeps(v) == Dirt(v) # 0 \/ v \in {WHITEOUT, OPAQUE}
PurgeMap(m) == [k \in {x \in DOMAIN m : PurgeKeeps(m[x])} |-> m[k]]

(***************************************************************************)
(* The program as a state machine                                          *)
(***************************************************************************)
\* the paths of the specifications that write the log, and their keys
LogPaths == {<<"/", "a">>, <<"/", "b">>}
LogKeys == {ComputePathkey(p) : p \in LogPaths}

\* the threads that call Write
Threads == {1, 2}

\* the locals of a thread outside Write.  d0 (the keys dirty when the first
\* writeBegin ran) and touched (the keys Set since) are observation only.
Idle ==
    [pc |-> "idle", sync |-> FALSE, full |-> FALSE, tx |-> 0, inc |-> FALSE,
     ofs0 |-> 0, ofsw |-> 0, out |-> <<>>, chunks |-> <<>>, n |-> 0,
     d0 |-> {}, touched |-> {}]

\* truncate := !incremental && 0 == ofs0
Truncate(l) == ~l.inc /\ 0 = l.ofs0

\* the keys with _DIRT set
DirtyKeys(m) == {k \in DOMAIN m : Dirt(m[k]) # 0}

\* last after a call that returns a value, and after one that returns none
Returned(op, n) == [op |-> op, n |-> n]
NoResult == [op |-> "void", n |-> 0]

\* a pm.writemux that never blocks
MuxFreeAlways(w) == TRUE
\* a writeEnd that returns without pm.Unlock()
UnlockNotEnd(l, bracket) == IF bracket = "end" THEN "write" ELSE "free"

\* a writeBegin that returns without pm.Unlock()
UnlockNotBegin(l, bracket) == IF bracket = "begin" THEN "write" ELSE "free"

\* pm.Unlock() at the end of a bracket of Write (the bloat test, writeBegin,
\* writeEnd), which found the lock l free and took it
Unlock(l, bracket) == "free"

\* whether pm.writemux, the map lock can be taken
MuxFree(w) == w = 0
LockFree(l) == l = "free"

\* whether thread t is between its first writeBegin and its return from Write
Writing(t) ==
    /\ th[t].pc \in {"begin", "write", "fsync1", "trunc", "fsync2", "end"}
    /\ ~(th[t].pc = "begin" /\ th[t].tx = 1)

\* the records of a transaction of n keys: one header for every BufRecs - 1 keys
TxnRecs(n) == n + ((n + BufRecs - 2) \div (BufRecs - 1))

\* the threads inside Write
Busy == {t \in Threads : th[t].pc # "idle"}

Init ==
    /\ vm = <<>>
    /\ dl = <<>>
    /\ ofs = 0
    /\ file = EmptyFile
    /\ last = Returned("OpenPathmap", 0)
    /\ hist = "open"
    /\ txns = <<>>
    /\ fails = 0
    /\ writes = 0
    /\ writemux = 0
    /\ lock = "free"
    /\ th = [t \in Threads |-> Idle]

\* a client takes and releases the map lock around its calls
ClientLock ==
    /\ LockFree(lock)
    /\ lock' = "client"
    /\ UNCHANGED <<vm, dl, ofs, file, last, fails, writes, writemux, th>>

ClientUnlock ==
    /\ lock = "client"
    /\ lock' = "free"
    /\ UNCHANGED <<vm, dl, ofs, file, last, fails, writes, writemux, th>>

\* the keys Set while a thread is writing are noted in that thread's locals
Touch(k) ==
    [t \in Threads |->
        IF Writing(t) THEN [th[t] EXCEPT !.touched = @ \cup {k}] ELSE th[t]]

\* a Set that stores any value, without the test against _MAXVIS
SetUnchecked(path, v) ==
    /\ LET k == ComputePathkey(path)
           u == IF k \in DOMAIN vm THEN vm[k] ELSE UNKNOWN
           r == set(vm, dl, k, u, v)
       IN  /\ vm' = r.vm
           /\ dl' = r.dl
           /\ th' = Touch(k)
    /\ last' = NoResult
    /\ UNCHANGED <<ofs, file, fails, writes, writemux, lock>>

\* Pathmap.Set, by a client that holds the map lock or takes it for the call
Set(path, v) ==
    /\ ~(_MAXVIS < v)
    /\ LET k == ComputePathkey(path)
           u == IF k \in DOMAIN vm THEN vm[k] ELSE UNKNOWN
           r == set(vm, dl, k, u, v)
       IN  /\ vm' = r.vm
           /\ dl' = r.dl
           /\ th' = Touch(k)
    /\ last' = NoResult
    /\ UNCHANGED <<ofs, file, fails, writes, writemux, lock>>

\* Pathmap.SetIf
SetIf(path, v) ==
    /\ ~(_MAXVIS < v)
    /\ LET k == ComputePathkey(path)
       IN  IF k \in DOMAIN vm
           THEN LET r == set(vm, dl, k, vm[k], v)
                IN  vm' = r.vm /\ dl' = r.dl /\ th' = Touch(k)
           ELSE UNCHANGED <<vm, dl, th>>
    /\ last' = NoResult
    /\ UNCHANGED <<ofs, file, fails, writes, writemux, lock>>

\* Pathmap.Purge (takes the map lock)
Purge ==
    /\ LockFree(lock)
    /\ vm' = PurgeMap(vm)
    /\ last' = NoResult
    /\ UNCHANGED <<dl, ofs, file, fails, writes, writemux, lock, th>>

\* Write is called: the thread waits for pm.writemux.  The call is made while
\* the log has room for a transaction of room keys from every thread in Write.
WriteCall(t, sync, room) ==
    /\ th[t].pc = "idle"
    /\ writes < MaxWrites
    /\ (ofs \div Pathkeylen) + TxnRecs(room) * (1 + Cardinality(Busy)) <= MaxRecs
    /\ writes' = writes + 1
    /\ th' = [th EXCEPT ![t] = [Idle EXCEPT !.pc = "mux", !.sync = sync]]
    /\ UNCHANGED <<vm, dl, ofs, file, last, fails, writemux, lock>>

\* pm.writemux.Lock()
WriteMuxLock(t) ==
    /\ th[t].pc = "mux"
    /\ MuxFree(writemux)
    /\ writemux' = t
    /\ th' = [th EXCEPT ![t].pc = "test"]
    /\ UNCHANGED <<vm, dl, ofs, file, last, fails, writes, lock>>

\* the first bracket of Write: reads pm.ofs and tests for bloat
WriteTest(t) ==
    /\ th[t].pc = "test"
    /\ LockFree(lock)
    /\ LET full == IsFull(ofs, vm)
       IN  th' = [th EXCEPT ![t] = [@ EXCEPT !.pc = "begin", !.full = full,
                                             !.tx = 1,
                                             !.inc = FirstIncremental(full),
                                             !.ofs0 = ofs]]
    /\ lock' = Unlock(lock, "test")
    /\ UNCHANGED <<vm, dl, ofs, file, last, fails, writes, writemux>>

\* writeTransaction up to its first storage call: writeBegin, and the chunks
\* built from vm_out visited in the order ko
WriteBegin(t, ko) ==
    /\ th[t].pc = "begin"
    /\ LockFree(lock)
    /\ LET l == th[t]
           b == writeBegin(l.inc, vm, dl)
           cs == Chunks(DataRecs(b.out, ko), l.inc)
       IN  /\ ko \in KeyOrders(DOMAIN b.out)
           /\ vm' = b.vm
           /\ dl' = b.dl
           /\ th' = [th EXCEPT ![t] =
                        [@ EXCEPT !.out = b.out, !.chunks = cs, !.ofsw = l.ofs0,
                                  !.n = 0,
                                  !.d0 = IF l.tx = 1 THEN DirtyKeys(vm) ELSE @,
                                  !.pc = IF cs = <<>> THEN "end" ELSE "write"]]
    /\ lock' = Unlock(lock, "begin")
    /\ UNCHANGED <<ofs, file, last, fails, writes, writemux>>

\* where writeTransaction goes after its last chunk is written
AfterChunks(l) ==
    IF l.sync THEN "fsync1" ELSE IF Truncate(l) THEN "trunc" ELSE "end"

\* the storage calls that failed, after one more returned n
Failed(n) == IF 0 > n THEN fails + 1 ELSE fails

\* the write closure: fs.Write of the next chunk returns r.res after r.got of
\* its records reached the file
IoWrite(t, r) ==
    /\ th[t].pc = "write"
    /\ LET l == th[t]
           c == Head(l.chunks)
           n == WriteClosureRes(r.res, Len(c))
       IN  /\ r \in WriteOutcomes(Len(c))
           /\ 0 > n => fails < MaxFails
           /\ fails' = Failed(n)
           /\ file' = FsWrite(file, SubSeq(c, 1, r.got), l.ofsw)
           /\ th' = [th EXCEPT ![t] =
                        IF 0 > n THEN [l EXCEPT !.n = n, !.pc = "end"]
                        ELSE IF Tail(l.chunks) # <<>>
                        THEN [l EXCEPT !.ofsw = @ + n, !.chunks = Tail(@)]
                        ELSE [l EXCEPT !.ofsw = @ + n, !.chunks = <<>>, !.n = 1,
                                       !.pc = AfterChunks(l)]]
    /\ UNCHANGED <<vm, dl, ofs, last, writes, writemux, lock>>

\* fs.Fsync returns errc (before and after the truncation)
IoFsync(t, errc) ==
    /\ th[t].pc \in {"fsync1", "fsync2"}
    /\ 0 # errc => fails < MaxFails
    /\ fails' = IF 0 # errc THEN fails + 1 ELSE fails
    /\ LET l == th[t]
       IN  th' = [th EXCEPT ![t] =
                     IF FsyncFails(errc) THEN [l EXCEPT !.n = errc, !.pc = "end"]
                     ELSE IF l.pc = "fsync1" /\ Truncate(l)
                     THEN [l EXCEPT !.pc = "trunc"]
                     ELSE [l EXCEPT !.n = 1, !.pc = "end"]]
    /\ UNCHANGED <<vm, dl, ofs, file, last, writes, writemux, lock>>

\* fs.Truncate returns errc
IoTruncate(t, errc) ==
    /\ th[t].pc = "trunc"
    /\ 0 # errc => fails < MaxFails
    /\ fails' = IF 0 # errc THEN fails + 1 ELSE fails
    /\ LET l == th[t]
       IN  IF 0 # errc
           THEN /\ th' = [th EXCEPT ![t] = [l EXCEPT !.n = errc, !.pc = "end"]]
                /\ UNCHANGED file
           ELSE /\ file' = FsTruncate(file, l.ofsw)
                /\ th' = [th EXCEPT ![t] =
                             IF l.sync THEN [l EXCEPT !.pc = "fsync2"]
                             ELSE [l EXCEPT !.n = 1, !.pc = "end"]]
    /\ UNCHANGED <<vm, dl, ofs, last, writes, writemux, lock>>

\* a compacting Write that goes on to its second transaction after an error
AgainAlways(l) == l.full /\ l.tx = 1

\* whether Write calls writeTransaction once more after this one returned l.n
Again(l) == l.full /\ l.tx = 1 /\ ~(0 > l.n)

\* the deferred writeEnd (its loop visits vm_out in the order ke), and then
\* either the second transaction of a compacting Write or the return of Write
WriteEnd(t, ke) ==
    /\ th[t].pc = "end"
    /\ 0 # th[t].n => LockFree(lock)
    /\ LET l == th[t]
           e == writeEnd(l.n, l.ofsw, l.out, vm, dl, ofs, ke)
       IN  /\ ke \in IF 0 > l.n THEN KeyOrders(DOMAIN l.out) ELSE {<<>>}
           /\ vm' = e.vm
           /\ dl' = e.dl
           /\ ofs' = e.ofs
           /\ IF Again(l)
              THEN /\ th' = [th EXCEPT ![t] =
                                [l EXCEPT !.pc = "begin", !.tx = 2, !.inc = FALSE,
                                          !.ofs0 = 0, !.ofsw = 0, !.out = <<>>,
                                          !.n = 0]]
                   /\ UNCHANGED <<last, writemux>>
              ELSE /\ th' = [th EXCEPT ![t] = Idle]
                   /\ writemux' = 0
                   /\ last' = Returned("Write", l.n)
    /\ lock' = IF 0 # th[t].n THEN Unlock(lock, "end") ELSE lock
    /\ UNCHANGED <<file, fails, writes>>

\* what OpenPathmap returns after read returned n
OpenResult(n) == IF 0 > n THEN n ELSE 0

\* a crash that leaves the first L bytes of the file, and OpenPathmap on it
Reopen(L) ==
    /\ Busy = {}
    /\ CutOffset(file, L)
    /\ LET F == Cut(file, L)
           r == read(F)
       IN  /\ file' = F
           /\ vm' = r.vm
           /\ ofs' = r.ofs
           /\ last' = Returned("OpenPathmap", OpenResult(r.n))
    /\ dl' = <<>>
    /\ UNCHANGED <<fails, writes, writemux, lock, th>>

\* the orders of the keys of vm_out
OutOrders == UNION {KeyOrders(S) : S \in SUBSET LogKeys}

\* what a failing fs.Write, fs.Fsync, fs.Truncate may return
WriteFailures == UNION {WriteOutcomes(len) \ WriteOk(len) : len \in 1..BufRecs}
WriteSuccesses == UNION {WriteOk(len) : len \in 1..BufRecs}

(***************************************************************************)
(* Spec: one client that makes one call at a time: Set, SetIf, Purge and   *)
(* Write, whose storage calls may fail                                     *)
(***************************************************************************)
LogVals == {0, WHITEOUT}

Next ==
    \/ \E p \in LogPaths, v \in LogVals :
           Busy = {} /\ Set(p, v) /\ UNCHANGED <<hist, txns>>
    \/ \E p \in LogPaths, v \in LogVals :
           Busy = {} /\ SetIf(p, v) /\ UNCHANGED <<hist, txns>>
    \/ Busy = {} /\ Purge /\ UNCHANGED <<hist, txns>>
    \/ \E sync \in BOOLEAN :
           WriteCall(1, sync, Cardinality(DOMAIN vm)) /\ UNCHANGED <<hist, txns>>
    \/ WriteMuxLock(1) /\ UNCHANGED <<hist, txns>>
    \/ WriteTest(1) /\ UNCHANGED <<hist, txns>>
    \/ \E ko \in OutOrders : WriteBegin(1, ko) /\ UNCHANGED <<hist, txns>>
    \/ \E r \in WriteSuccesses : IoWrite(1, r) /\ UNCHANGED <<hist, txns>>
    \/ \E r \in WriteFailures : IoWrite(1, r) /\ UNCHANGED <<hist, txns>>
    \/ \E errc \in FsyncOutcomes : IoFsync(1, errc) /\ UNCHANGED <<hist, txns>>
    \/ \E errc \in TruncateOutcomes : IoTruncate(1, errc) /\ UNCHANGED <<hist, txns>>
    \/ \E ke \in OutOrders : WriteEnd(1, ke) /\ UNCHANGED <<hist, txns>>

Spec == Init /\ [][Next]_vars

(***************************************************************************)
(* Dirty tracking across Write (checked under Spec)                        *)
(***************************************************************************)
\* whether key k is dirty in map m and listed in d
DirtyAndListed(m, d, k) ==
    k \in DOMAIN m /\ Dirt(m[k]) # 0 /\ k \in Range(d)

\* the step in which thread t returns from Write
WriteReturns(t) == th[t].pc = "end" /\ th'[t].pc = "idle"

\* C3: when Write returns a negative error code, every key that was dirty when
\* that Write began is dirty again and in the dirty list, whatever its kind.
C3_FailedWriteRedirties ==
    [][\A t \in Threads :
          (WriteReturns(t) /\ 0 > th[t].n) =>
              \A k \in th[t].d0 : DirtyAndListed(vm', dl', k)]_vars

\* C4: after a successful Write (no Set or SetIf between its brackets) the
\* dirty list is empty and every cell has DIRT = 0, on the incremental and on
\* the compacting path.
C4_SuccessfulWriteCleans ==
    (last.op = "Write" /\ 0 < last.n) =>
        (dl = <<>> /\ \A k \in DOMAIN vm : Dirt(vm[k]) = 0)

\* a successful compacting Write has just returned: the log is one 'S'
\* transaction at offset 0 and the file ends with it
C4_Witness ==
    /\ last.op = "Write" /\ 0 < last.n
    /\ vm # <<>>
    /\ file.recs # <<>>
    /\ CmdOf(file.recs[1]) = CmdS
    /\ ofs = FileLen(file)

\* C5: in every state between calls and steps (the map lock is free), the keys
\* of the dirty list are the keys whose cell has DIRT = 1.
C5_DirtyListIsDirtySet == Range(dl) = DirtyKeys(vm)

\* a failed Write has returned and has put a key back in the dirty list
C5_Witness ==
    /\ last.op = "Write" /\ 0 > last.n
    /\ dl # <<>>
    /\ vm # <<>>

(***************************************************************************)
(* SpecCrash: one client that makes one call at a time; no storage call    *)
(* fails; between calls the path map may be opened again, on the whole     *)
(* file or, after a crash, on a prefix of it; the run ends with the        *)
(* recovery from a crash                                                   *)
(***************************************************************************)
CrashVals == {0, WHITEOUT, OPAQUE}

\* the transaction a writeTransaction that returned 1 left in the file
TxnOf(l) ==
    [end |-> l.ofsw,
     cmd |-> IF l.inc THEN CmdA ELSE CmdS,
     tmp |-> [k \in DOMAIN l.out |-> Mask(l.out[k])]]

\* hist after Set or SetIf
HistSet == hist' = IF hist \in {"open", "reloaded", "sets"} THEN "sets" ELSE "other"

\* hist and txns after the writeEnd step of thread t
HistWrite(t) ==
    hist' = IF Again(th[t]) THEN hist
            ELSE IF hist \in {"open", "reloaded", "sets"} /\ th[t].sync /\ 0 < th[t].n
            THEN "wrote"
            ELSE "other"
TxnsWrite(t) ==
    txns' = IF ~(0 < th[t].n) THEN txns
            ELSE IF Truncate(th[t]) THEN <<TxnOf(th[t])>>
            ELSE Append(txns, TxnOf(th[t]))

\* hist and txns after OpenPathmap on the first L bytes of the file
HistOpen(L) ==
    hist' = IF L < FileLen(file) THEN "crashed"
            ELSE IF hist = "wrote" THEN "reloaded"
            ELSE "open"
TxnsOpen(L) ==
    txns' = SelectSeq(txns, LAMBDA x : x.end <= L)

\* whether the client of SpecCrash makes calls: no Write is running, no crash yet
Calling == Busy = {} /\ hist # "crashed"

NextCrash ==
    \/ \E p \in LogPaths, v \in CrashVals :
           Calling /\ Set(p, v) /\ HistSet /\ UNCHANGED txns
    \/ \E p \in LogPaths, v \in CrashVals :
           Calling /\ SetIf(p, v) /\ HistSet /\ UNCHANGED txns
    \/ \E sync \in BOOLEAN :
           /\ Calling
           /\ WriteCall(1, sync, Cardinality(DOMAIN vm))
           /\ UNCHANGED <<hist, txns>>
    \/ WriteMuxLock(1) /\ UNCHANGED <<hist, txns>>
    \/ WriteTest(1) /\ UNCHANGED <<hist, txns>>
    \/ \E ko \in OutOrders : WriteBegin(1, ko) /\ UNCHANGED <<hist, txns>>
    \/ \E r \in WriteSuccesses : IoWrite(1, r) /\ UNCHANGED <<hist, txns>>
    \/ IoFsync(1, 0) /\ UNCHANGED <<hist, txns>>
    \/ IoTruncate(1, 0) /\ UNCHANGED <<hist, txns>>
    \/ WriteEnd(1, <<>>) /\ HistWrite(1) /\ TxnsWrite(1)
    \/ \E L \in 0..(Pathkeylen * MaxRecs) :
           Calling /\ Reopen(L) /\ HistOpen(L) /\ TxnsOpen(L)

SpecCrash == Init /\ [][NextCrash]_vars

\* the cells a log keeps: the WHITEOUT and OPAQUE cells of m, clean
Persistent(m) ==
    [k \in {x \in DOMAIN m : Mask(m[x]) \in {WHITEOUT, OPAQUE}} |-> Mask(m[k])]

\* C1: after OpenPathmap, any Set and SetIf calls and then a successful
\* Write(true), a fresh OpenPathmap on the same file returns no error and yields
\* exactly the keys whose kind was WHITEOUT or OPAQUE at the Write, with that kind.
C1_SerializeReload ==
    [][(hist = "wrote" /\ hist' = "reloaded") =>
          (last'.n = 0 /\ vm' = Persistent(vm))]_vars

\* the map was reloaded after Sets and a Write(true) that added a transaction to
\* a log, and holds a key of each of the kinds that persist
C1_Witness ==
    /\ hist = "reloaded"
    /\ \E k1, k2 \in DOMAIN vm : vm[k1] = WHITEOUT /\ vm[k2] = OPAQUE
    /\ Len(txns) >= 2

\* the map that replaying the transactions ts in order gives
RECURSIVE ReplayOf(_, _)
ReplayOf(ts, m) ==
    IF ts = <<>> THEN m
    ELSE LET x == Head(ts)
             base == IF x.cmd = CmdS THEN <<>> ELSE m
             kept == {k \in DOMAIN base :
                         k \in DOMAIN x.tmp => x.tmp[k] \notin {WHITEOUT, OPAQUE, NOTEXIST}}
             put == {k \in DOMAIN x.tmp : x.tmp[k] \in {WHITEOUT, OPAQUE}}
         IN  ReplayOf(Tail(ts),
                      [k \in kept \cup put |-> IF k \in put THEN x.tmp[k] ELSE base[k]])

\* C2: when a log written by successful Writes is cut at any byte length and
\* opened, OpenPathmap returns no error and the map is the replay of exactly the
\* transactions that lie completely within what is left of the file.
C2_CrashRecovery ==
    last.op = "OpenPathmap" => (last.n = 0 /\ vm = ReplayOf(txns, <<>>))

\* the path map was opened on a file cut inside a record of a transaction that
\* follows a complete one
C2_Witness ==
    /\ last.op = "OpenPathmap"
    /\ txns # <<>>
    /\ vm # <<>>
    /\ file.tail # <<>>
    /\ FileLen(file) > txns[Len(txns)].end + Pathkeylen

(***************************************************************************)
(* SpecSet: Set and SetIf applied to every cell a key may have             *)
(***************************************************************************)
SetVals == {0, 2, NOTEXIST, WHITEOUT, OPAQUE}

\* the maps over the keys of LogPaths whose cells hold a client value, clean or dirty
SetMaps ==
    UNION {[S -> SetVals \cup {_DIRT + v : v \in SetVals}] : S \in SUBSET LogKeys}

InitSet ==
    /\ vm \in SetMaps
    /\ dl \in KeyOrders(DirtyKeys(vm))
    /\ ofs = 0
    /\ file = EmptyFile
    /\ last = NoResult
    /\ hist = "other"
    /\ txns = <<>>
    /\ fails = 0
    /\ writes = 0
    /\ writemux = 0
    /\ lock = "free"
    /\ th = [t \in Threads |-> Idle]

NextSet ==
    \/ \E p \in LogPaths, v \in SetVals : Set(p, v) /\ UNCHANGED <<hist, txns>>
    \/ \E p \in LogPaths, v \in SetVals : SetIf(p, v) /\ UNCHANGED <<hist, txns>>

SpecSet == InitSet /\ [][NextSet]_vars

\* the kinds of the claim: UNKNOWN (key absent), OPAQUE, WHITEOUT, NOTEXIST, and
\* index, for which 0 stands
KindOfValue(v) == IF Mask(v) \in {OPAQUE, WHITEOUT, NOTEXIST} THEN Mask(v) ELSE 0
KindStored(m, path) ==
    LET k == ComputePathkey(path)
    IN  IF k \in DOMAIN m THEN KindOfValue(m[k]) ELSE UNKNOWN

\* C6: after Set(p, v), IsDirty(p) holds if and only if the cell was dirty before
\* the call or the kind of v differs from the kind stored before the call, the
\* kinds being UNKNOWN (key absent), OPAQUE, WHITEOUT, NOTEXIST and index.
C6_SetDirtyIffKindChanges ==
    [][\A p \in LogPaths, v \in SetVals :
          Set(p, v) =>
              (IsDirty(vm', p) <=>
                  (IsDirty(vm, p) \/ KindOfValue(v) # KindStored(vm, p)))]_vars

(***************************************************************************)
(* SpecGet: Set and SetIf on a root, a directory, a file in it, and on     *)
(* paths that are not in canonical form; Get is asked about all of them    *)
(***************************************************************************)
GetVals == {2, WHITEOUT, OPAQUE}
PathRoot == <<"/">>
PathD == <<"/", "d">>
PathDE == <<"/", "d", "/", "e">>
PathDSlash == <<"/", "d", "/">>
PathRel == <<"d">>
PathSlashSlashD == <<"/", "/", "d">>
SetPaths == {PathRoot, PathD, PathDE, PathDSlash, PathRel}
GetPaths == SetPaths \cup {PathSlashSlashD}

NextGet ==
    \/ \E p \in SetPaths, v \in GetVals : Set(p, v) /\ UNCHANGED <<hist, txns>>
    \/ \E p \in SetPaths, v \in GetVals : SetIf(p, v) /\ UNCHANGED <<hist, txns>>

SpecGet == Init /\ [][NextGet]_vars

\* a path in canonical form: "/" itself, or a path that begins with '/', does
\* not end with '/' and has no two '/' in a row
Canonical(p) ==
    \/ p = PathRoot
    \/ /\ Len(p) > 1
       /\ p[1] = "/"
       /\ p[Len(p)] # "/"
       /\ \A i \in 1..(Len(p) - 1) : ~(p[i] = "/" /\ p[i + 1] = "/")

\* the ancestors of p: the root, each directory prefix of p, and p itself
Ancestors(p) ==
    {PathRoot, p}
    \cup {SubSeq(p, 1, i) : i \in {j \in 1..(Len(p) - 1) : p[j] # "/" /\ p[j + 1] = "/"}}

\* whether the cell stored for an ancestor of p has kind OPAQUE
AnyOpaque(m, p) ==
    \E a \in Ancestors(p) :
        ComputePathkey(a) \in DOMAIN m /\ Mask(m[ComputePathkey(a)]) = OPAQUE

\* C7 as stated: for every path p, Get(p).isopq is true if the cell of an
\* ancestor of p (the root, a directory prefix of p, p itself) has kind OPAQUE,
\* and false when none has.
C7_OpaquePropagation ==
    \A p \in GetPaths : Get(vm, p).isopq = AnyOpaque(vm, p)

\* C7: for every path p in canonical form, Get(p).isopq is true if the cell of
\* an ancestor of p (the root, a directory prefix of p, p itself) has kind
\* OPAQUE, and false when none has.
C7_OpaquePropagationCanonical ==
    \A p \in GetPaths : Canonical(p) => Get(vm, p).isopq = AnyOpaque(vm, p)

\* only the directory /d is opaque, and Get reports it for the file /d/e in it
C7_Witness ==
    /\ ComputePathkey(PathD) \in DOMAIN vm
    /\ Mask(vm[ComputePathkey(PathD)]) = OPAQUE
    /\ ComputePathkey(PathDE) \in DOMAIN vm
    /\ Mask(vm[ComputePathkey(PathDE)]) = 2
    /\ ComputePathkey(PathRoot) \notin DOMAIN vm
    /\ Get(vm, PathDE).isopq

\* what Get reports for the cell of p itself
OwnValue(m, p) ==
    LET k == ComputePathkey(p)
    IN  IF k \notin DOMAIN m THEN UNKNOWN
        ELSE IF Mask(m[k]) = OPAQUE THEN 0
        ELSE Mask(m[k])

\* C8 as stated: for every path p, the v of Get(p) is that of the cell of p
\* itself: the stored value without DIRT, OPAQUE reported as 0, and UNKNOWN when
\* p is not in the map even if ancestors of p are.
C8_ValueIsOwnCell ==
    \A p \in GetPaths : Get(vm, p).v = OwnValue(vm, p)

\* C8: for every path p in canonical form, the v of Get(p) is that of the cell
\* of p itself: the stored value without DIRT, OPAQUE reported as 0, and UNKNOWN
\* when p is not in the map even if ancestors of p are.
C8_ValueIsOwnCellCanonical ==
    \A p \in GetPaths : Canonical(p) => Get(vm, p).v = OwnValue(vm, p)

\* /d is opaque and /d/e is not in the map: Get gives (true, 0) for /d and
\* (true, UNKNOWN) for /d/e
C8_Witness ==
    /\ ComputePathkey(PathD) \in DOMAIN vm
    /\ Mask(vm[ComputePathkey(PathD)]) = OPAQUE
    /\ ComputePathkey(PathDE) \notin DOMAIN vm
    /\ Get(vm, PathD) = [isopq |-> TRUE, v |-> 0]
    /\ Get(vm, PathDE) = [isopq |-> TRUE, v |-> UNKNOWN]

(***************************************************************************)
(* SpecConc: two threads call Write while a client, holding the map lock,  *)
(* calls Set and SetIf; no storage call fails                              *)
(***************************************************************************)
ConcPaths == {<<"/", "a">>}
ConcVals == {0, WHITEOUT, OPAQUE}

NextConc ==
    \/ ClientLock /\ UNCHANGED <<hist, txns>>
    \/ ClientUnlock /\ UNCHANGED <<hist, txns>>
    \/ \E p \in ConcPaths, v \in ConcVals :
           lock = "client" /\ Set(p, v) /\ UNCHANGED <<hist, txns>>
    \/ \E p \in ConcPaths, v \in ConcVals :
           lock = "client" /\ SetIf(p, v) /\ UNCHANGED <<hist, txns>>
    \/ \E t \in Threads, sync \in BOOLEAN :
           WriteCall(t, sync, Cardinality(ConcPaths)) /\ UNCHANGED <<hist, txns>>
    \/ \E t \in Threads : WriteMuxLock(t) /\ UNCHANGED <<hist, txns>>
    \/ \E t \in Threads : WriteTest(t) /\ UNCHANGED <<hist, txns>>
    \/ \E t \in Threads, ko \in OutOrders :
           WriteBegin(t, ko) /\ UNCHANGED <<hist, txns>>
    \/ \E t \in Threads, r \in WriteSuccesses :
           IoWrite(t, r) /\ UNCHANGED <<hist, txns>>
    \/ \E t \in Threads : IoFsync(t, 0) /\ UNCHANGED <<hist, txns>>
    \/ \E t \in Threads : IoTruncate(t, 0) /\ UNCHANGED <<hist, txns>>
    \/ \E t \in Threads : WriteEnd(t, <<>>) /\ UNCHANGED <<hist, txns>>

SpecConc == Init /\ [][NextConc]_vars

\* whether thread t is between the start of the first bracket of its Write and
\* the end of its last
InBrackets(t) ==
    th[t].pc \in {"test", "begin", "write", "fsync1", "trunc", "fsync2", "end"}

\* C9: at most one thread at a time is between the start of a Write's begin
\* bracket and the end of its end bracket, so at most one thread issues storage
\* calls and the chunks of two Writes are not interleaved.
C9_WriteMutualExclusion ==
    \A t1, t2 \in Threads : (InBrackets(t1) /\ InBrackets(t2)) => t1 = t2

\* one thread is writing a chunk while the other has called Write and waits
C9_Witness ==
    \E t1, t2 \in Threads : th[t1].pc = "write" /\ th[t2].pc = "mux"

\* the kind of key k that a log keeps: WHITEOUT, OPAQUE, or NOTEXIST for none
PersistentKind(m, k) ==
    IF k \in DOMAIN m /\ Mask(m[k]) \in {WHITEOUT, OPAQUE} THEN Mask(m[k])
    ELSE NOTEXIST

\* whether key k is dirty and listed for the next Write, or clean with the kind
\* the log F replays to
Settled(m, d, F, k) ==
    \/ DirtyAndListed(m, d, k)
    \/ /\ ~(k \in DOMAIN m /\ Dirt(m[k]) # 0)
       /\ PersistentKind(m, k) = PersistentKind(read(F).vm, k)

\* C10: when a Write returns without an error, every key that a Set had made
\* dirty before its begin bracket, and every key Set while it was writing, is
\* either clean with the kind the log replays to, or dirty and in the dirty
\* list: never clean with an unwritten change.
C10_SetWriteOrdering ==
    [][\A t \in Threads :
          (WriteReturns(t) /\ ~(0 > th[t].n)) =>
              \A k \in th[t].d0 \cup th[t].touched : Settled(vm', dl', file', k)]_vars

(***************************************************************************)
(* SpecLost: rounds of calls.  A client, holding the map lock, calls Set   *)
(* and SetIf; then Write is called, by one thread or by two whose calls    *)
(* overlap, and a storage call may fail; the next round starts when no     *)
(* Write is running.  hist is the phase of the round, txns the keys Set in *)
(* the round.                                                              *)
(***************************************************************************)
LostPaths == {<<"/", "a">>}
LostVals == {0, WHITEOUT}

\* txns after Set or SetIf on path
RoundKeys(path) ==
    IF ComputePathkey(path) \in Range(txns) THEN txns
    ELSE Append(txns, ComputePathkey(path))

\* hist after Write is called: by one thread ("open" is the phase of the Sets),
\* then by a second one meanwhile
RoundCall == hist' = IF hist = "open" THEN "one" ELSE "two"

\* hist and txns after the writeEnd step of thread t: the first of two Writes
\* returns an error or not, the last Write returns
RoundEnd(t) ==
    IF Again(th[t]) THEN UNCHANGED <<hist, txns>>
    ELSE IF hist = "two"
    THEN hist' = (IF 0 > th[t].n THEN "err" ELSE "ok") /\ UNCHANGED txns
    ELSE hist' = "open" /\ txns' = <<>>

NextLost ==
    \/ hist = "open" /\ ClientLock /\ UNCHANGED <<hist, txns>>
    \/ ClientUnlock /\ UNCHANGED <<hist, txns>>
    \/ \E p \in LostPaths, v \in LostVals :
           /\ hist = "open" /\ lock = "client"
           /\ Set(p, v) /\ txns' = RoundKeys(p) /\ UNCHANGED hist
    \/ \E p \in LostPaths, v \in LostVals :
           /\ hist = "open" /\ lock = "client"
           /\ SetIf(p, v) /\ txns' = RoundKeys(p) /\ UNCHANGED hist
    \/ \E t \in Threads, sync \in BOOLEAN :
           /\ hist \in {"open", "one"} /\ lock = "free"
           /\ WriteCall(t, sync, Cardinality(LostPaths))
           /\ RoundCall /\ UNCHANGED txns
    \/ \E t \in Threads : WriteMuxLock(t) /\ UNCHANGED <<hist, txns>>
    \/ \E t \in Threads : WriteTest(t) /\ UNCHANGED <<hist, txns>>
    \/ \E t \in Threads, ko \in OutOrders :
           WriteBegin(t, ko) /\ UNCHANGED <<hist, txns>>
    \/ \E t \in Threads, r \in WriteSuccesses :
           IoWrite(t, r) /\ UNCHANGED <<hist, txns>>
    \/ \E t \in Threads, r \in WriteFailures :
           IoWrite(t, r) /\ UNCHANGED <<hist, txns>>
    \/ \E t \in Threads, errc \in FsyncOutcomes :
           IoFsync(t, errc) /\ UNCHANGED <<hist, txns>>
    \/ \E t \in Threads, errc \in TruncateOutcomes :
           IoTruncate(t, errc) /\ UNCHANGED <<hist, txns>>
    \/ \E t \in Threads, ke \in OutOrders : WriteEnd(t, ke) /\ RoundEnd(t)

SpecLost == Init /\ [][NextLost]_vars

\* C11: when Sets have completed and then two Writes ran concurrently, after
\* both have returned every key those Sets changed is either clean with the
\* kind the log replays to, or still dirty and in the dirty list, unless both
\* Writes returned errors.
C11_NoLostUpdate ==
    [][\A t \in Threads :
          (/\ WriteReturns(t)
           /\ hist \in {"err", "ok"}
           /\ ~(hist = "err" /\ 0 > th[t].n)) =>
              \A k \in Range(txns) : Settled(vm', dl', file', k)]_vars

(***************************************************************************)
(* The choice between appending and compacting (checked under Spec)        *)
(***************************************************************************)
\* whether a log of o bytes is bloated for the map m, as the claim puts it
Bloated(o, m) ==
    (o \div Pathkeylen) > BloatMin /\ (o \div Pathkeylen) > 2 * Cardinality(DOMAIN m)

\* the step of thread t that is the writeBegin of its first transaction
FirstBegin(t) == th[t].pc = "begin" /\ th[t].tx = 1 /\ th'[t].pc # "begin"

\* the step of thread t that ends its first transaction without an error
FirstEnd(t) == th[t].pc = "end" /\ th[t].tx = 1 /\ ~(0 > th[t].n) /\ th'[t] # th[t]

\* the command of the last chunk of the chunks cs
FinalCmd(cs) == CmdOf(cs[Len(cs)][1])

\* C12: Write takes the compacting path (a second transaction from offset 0
\* follows the first) exactly when cnt = ofs/16 exceeds the threshold and
\* 2*|vm|, whether or not a key is dirty; otherwise its one transaction is
\* incremental, holds exactly the dirty keys, ends with 'A' and is appended at
\* ofs; and when the log is not bloated and no key is dirty, Write issues no
\* storage call and returns 0.
C12_CompactsIffBloated ==
    [][\A t \in Threads :
          /\ FirstBegin(t) =>
                /\ th[t].full = Bloated(ofs, vm)
                /\ ~Bloated(ofs, vm) =>
                      /\ th'[t].inc
                      /\ DOMAIN th'[t].out = DirtyKeys(vm)
                      /\ th'[t].ofsw = ofs
                      /\ th'[t].chunks # <<>> => FinalCmd(th'[t].chunks) = CmdA
                      /\ DirtyKeys(vm) = {} => (th'[t].pc = "end" /\ th'[t].n = 0)
          /\ FirstEnd(t) =>
                ((th'[t].pc = "begin" /\ th'[t].tx = 2 /\ th'[t].ofs0 = 0)
                     <=> Bloated(ofs, vm))
          /\ (WriteReturns(t) /\ ~th[t].full /\ th[t].d0 = {}) =>
                (last'.n = 0 /\ file' = file /\ ofs' = ofs)]_vars

\* a Write on a bloated log with no dirty key has come to its second
\* transaction
C12_Witness ==
    \E t \in Threads : th[t].pc = "begin" /\ th[t].tx = 2 /\ th[t].d0 = {}

\* the step of thread t that is the writeBegin of its second transaction
SecondBegin(t) == th[t].pc = "begin" /\ th[t].tx = 2 /\ th'[t].pc # "begin"

\* the keys of m whose kind is WHITEOUT or OPAQUE
DurableKeys(m) == {k \in DOMAIN m : Mask(m[k]) \in {WHITEOUT, OPAQUE}}

\* C13: a compacting Write performs two transactions in this order: first an
\* incremental one (records for the dirty keys only, final command 'A')
\* appended at the current end of file, then a full one (all WHITEOUT/OPAQUE
\* keys, final command 'S') written from offset 0, and then the file is
\* truncated to the end of the full transaction.
C13_CompactionOrder ==
    [][\A t \in Threads :
          /\ (FirstBegin(t) /\ th[t].full) =>
                /\ th'[t].inc
                /\ DOMAIN th'[t].out = DirtyKeys(vm)
                /\ th'[t].ofsw = ofs
                /\ th'[t].chunks # <<>> => FinalCmd(th'[t].chunks) = CmdA
          /\ SecondBegin(t) =>
                /\ ~th'[t].inc
                /\ DOMAIN th'[t].out = DurableKeys(vm)
                /\ th'[t].ofsw = 0
                /\ th'[t].chunks # <<>> => FinalCmd(th'[t].chunks) = CmdS
          /\ (th[t].pc = "trunc" /\ th'[t].pc # "trunc" /\ ~(0 > th'[t].n)) =>
                FileLen(file') = th[t].ofsw]_vars

(***************************************************************************)
(* The file while the second transaction of a compacting Write overwrites  *)
(* its start (checked under SpecCompact)                                   *)
(***************************************************************************)
\* bytes 1..15 that are the digest of no path and the hash of no records
TornKey == <<"?">>
TornSum == <<ZeroRec>>

\* the record the file holds when only byte 0 of the record new has replaced
\* that of the record old
TornHead(new, old) ==
    IF "key" \in DOMAIN old THEN [b0 |-> new.b0, key |-> old.key]
    ELSE IF new.b0 >= _DIRT THEN [b0 |-> new.b0, key |-> TornKey]
    ELSE [old EXCEPT !.b0 = new.b0]

\* the record the file holds when all bytes of new but the last have replaced
\* those of old, whose last byte differs
TornTail(new, old) ==
    IF "key" \in DOMAIN new THEN [b0 |-> new.b0, key |-> TornKey]
    ELSE [new EXCEPT !.sum = TornSum]

\* the files a crash may leave while fs.Write puts the records c at byte offset
\* o of F: every prefix of whole records, and after each one the next record
\* torn after its first or before its last byte
TornFiles(F, c, o) ==
    {FsWrite(F, SubSeq(c, 1, g), o) : g \in 0..Len(c)}
    \cup UNION {
        LET p == (o \div Pathkeylen) + g + 1
            Fg == FsWrite(F, SubSeq(c, 1, g), o)
        IN  IF p > Len(F.recs) THEN {}
            ELSE {FsWrite(Fg, <<TornHead(c[g + 1], F.recs[p])>>, o + Pathkeylen * g),
                  FsWrite(Fg, <<TornTail(c[g + 1], F.recs[p])>>, o + Pathkeylen * g)}
        : g \in 0..(Len(c) - 1)}

\* the files a crash may leave at the step thread t is at
CrashFiles(t) ==
    IF th[t].pc = "write" THEN TornFiles(file, Head(th[t].chunks), th[t].ofsw)
    ELSE {file}

\* the file after the chunks cs are written from byte offset o on and the file
\* is truncated behind them
RECURSIVE CompactedFile(_, _, _)
CompactedFile(F, cs, o) ==
    IF cs = <<>> THEN FsTruncate(F, o)
    ELSE CompactedFile(FsWrite(F, Head(cs), o), Tail(cs), o + Pathkeylen * Len(Head(cs)))

\* the log of SpecCompact is not grown past this many records
CompactRecs == 10

CompactVals == {0, WHITEOUT}

\* Write is called while the log has room for a transaction of every key
WriteCallCompact(t, sync) ==
    /\ th[t].pc = "idle"
    /\ writes < MaxWrites
    /\ (ofs \div Pathkeylen) + TxnRecs(Cardinality(DOMAIN vm)) <= CompactRecs
    /\ writes' = writes + 1
    /\ th' = [th EXCEPT ![t] = [Idle EXCEPT !.pc = "mux", !.sync = sync]]
    /\ UNCHANGED <<vm, dl, ofs, file, last, fails, writemux, lock>>

\* SpecCompact: one client that makes one call at a time, Set, Purge and Write,
\* on a log that may grow until a Write compacts a map of two keys; no storage
\* call fails
NextCompact ==
    \/ \E p \in LogPaths, v \in CompactVals :
           Busy = {} /\ Set(p, v) /\ UNCHANGED <<hist, txns>>
    \/ Busy = {} /\ Purge /\ UNCHANGED <<hist, txns>>
    \/ \E sync \in BOOLEAN : WriteCallCompact(1, sync) /\ UNCHANGED <<hist, txns>>
    \/ WriteMuxLock(1) /\ UNCHANGED <<hist, txns>>
    \/ WriteTest(1) /\ UNCHANGED <<hist, txns>>
    \/ \E ko \in OutOrders : WriteBegin(1, ko) /\ UNCHANGED <<hist, txns>>
    \/ \E r \in WriteSuccesses : IoWrite(1, r) /\ UNCHANGED <<hist, txns>>
    \/ IoFsync(1, 0) /\ UNCHANGED <<hist, txns>>
    \/ IoTruncate(1, 0) /\ UNCHANGED <<hist, txns>>
    \/ WriteEnd(1, <<>>) /\ UNCHANGED <<hist, txns>>

SpecCompact == Init /\ [][NextCompact]_vars

\* whether thread t is in the second transaction of a compacting Write whose
\* first transaction was written (step 1 returned 1, which it does when the
\* map holds a WHITEOUT or OPAQUE key)
InStep2(t) ==
    /\ th[t].tx = 2
    /\ th[t].pc \in {"begin", "write", "fsync1", "trunc", "fsync2", "end"}
    /\ DurableKeys(vm) # {}

\* C14: at every file state between the success of step 1 of a compaction and
\* the completion of step 2 (nothing of step 2 written yet, any prefix of the
\* full transaction written over the start of the file, the full transaction
\* written but the file not truncated yet), replaying the file gives the map
\* that replaying the compacted file gives: the WHITEOUT and OPAQUE cells of
\* the in-memory map.
C14_CompactionCrashSafe ==
    \A t \in Threads :
        InStep2(t) =>
            /\ \A F \in CrashFiles(t) :
                   read(F).n > 0 /\ read(F).vm = Persistent(vm)
            /\ th[t].pc = "write" =>
                   read(CompactedFile(file, th[t].chunks, th[t].ofsw)).vm
                       = Persistent(vm)

\* the first chunk of the full transaction of a map of two durable keys is in
\* place over the start of the old log, and the next chunk is about to be
\* written
C14_Witness ==
    \E t \in Threads :
        /\ InStep2(t)
        /\ th[t].pc = "write"
        /\ th[t].ofsw > 0
        /\ CmdOf(file.recs[1]) = CmdP
        /\ Cardinality(DurableKeys(vm)) = 2

(***************************************************************************)
(* Write after Write (checked under Spec)                                  *)
(***************************************************************************)
\* whether the step leaves the map, the dirty list, ofs and the file alone
NoChange == vm' = vm /\ dl' = dl /\ ofs' = ofs /\ file' = file

\* the steps of a Write, and what it returns, are those of a Write that does
\* nothing
Idempotent(t) ==
    /\ th[t].pc # "idle" => NoChange
    /\ WriteReturns(t) => th[t].n = 0

\* C15 as stated: after a Write that returned success, a further Write with no
\* call of Set or SetIf in between returns 0 and changes neither the file nor
\* the map, the dirty list or ofs.
C15_WriteIdempotent ==
    [][\A t \in Threads :
          (last.op = "Write" /\ 0 < last.n) => Idempotent(t)]_vars

\* C15: after a Write that returned 0, or that returned 1 and left a log that
\* is not bloated, a further Write with no other call in between returns 0 and
\* changes neither the file nor the map, the dirty list or ofs.
C15_WriteIdempotentUnlessBloated ==
    [][\A t \in Threads :
          (/\ last.op = "Write"
           /\ \/ 0 = last.n
              \/ 0 < last.n /\ ~Bloated(ofs, vm)) => Idempotent(t)]_vars

\* a Write on a log that holds a transaction is about to return 0, right after
\* a successful Write
C15_Witness ==
    \E t \in Threads :
        /\ last.op = "Write" /\ 0 < last.n
        /\ th[t].pc = "end" /\ th[t].n = 0 /\ ~th[t].full
        /\ ofs > 0 /\ vm # <<>>

\* C16: when the log is bloated and the map holds no WHITEOUT or OPAQUE key,
\* Write performs the compacting rewrite with nothing durable to write: it
\* returns 0 and has truncated the file to the compact length (no record, or a
\* header only), so that the stale records no longer occupy the file.
C16_EmptyCompactionTruncates ==
    [][\A t \in Threads :
          (/\ WriteReturns(t)
           /\ th[t].full /\ th[t].tx = 2
           /\ DurableKeys(vm) = {}
           /\ ~(0 > th[t].n)) =>
              (th[t].n = 0 /\ FileLen(file') <= Pathkeylen)]_vars

(***************************************************************************)
(* SpecReplay: the backing file is damaged outside the program, then       *)
(* OpenPathmap replays it.  hist tells how the file was made: "damaged" is *)
(* two valid transactions with an invalid one between them (txns holds the *)
(* valid ones), "any" is any short sequence of records and a partial one.  *)
(***************************************************************************)
\* the records of a file of "any" content are at most this many
AnyLen == 3

\* the chunks cs as one sequence of records
RECURSIVE Flat(_)
Flat(cs) == IF cs = <<>> THEN <<>> ELSE Head(cs) \o Flat(Tail(cs))

\* a transaction as writeTransaction writes it for vm_out = out visited in the
\* order ko: its records, and what it is to replay
TxnWritten(out, ko, incremental) ==
    [recs |-> Flat(Chunks(DataRecs(out, ko), incremental)),
     txn  |-> [end |-> 0, cmd |-> IF incremental THEN CmdA ELSE CmdS, tmp |-> out]]

\* the valid transactions: of one key, whose record is an insert, a delete or an
\* index value, and of two keys, which takes more than one chunk
GoodTxns ==
    {TxnWritten([k \in {x} |-> v], <<x>>, inc) :
        x \in LogKeys, v \in {WHITEOUT, OPAQUE, NOTEXIST, 0}, inc \in BOOLEAN}
    \cup {TxnWritten([k \in LogKeys |-> IF k[2][2] = "a" THEN WHITEOUT ELSE OPAQUE],
                     <<ComputePathkey(<<"/", "a">>), ComputePathkey(<<"/", "b">>)>>,
                     inc) : inc \in BOOLEAN}

\* a valid transaction of two keys, and the ways it is damaged: a record count
\* that is too high, a hash that does not match, the last record missing, the
\* first header missing, a record of zero bytes for the first data record, a
\* data record with another value, a first chunk 'P' with no chunk after it, a
\* header '1' 'P' 0xffff with no record after it, the first chunk missing
BaseRecs ==
    Flat(Chunks(DataRecs([k \in LogKeys |-> IF k[2][2] = "a" THEN WHITEOUT ELSE OPAQUE],
                         <<ComputePathkey(<<"/", "a">>), ComputePathkey(<<"/", "b">>)>>),
                TRUE))

BadTxns ==
    {[BaseRecs EXCEPT ![1].cnt = @ + 1],
     [BaseRecs EXCEPT ![1].sum = TornSum],
     SubSeq(BaseRecs, 1, Len(BaseRecs) - 1),
     Tail(BaseRecs),
     [BaseRecs EXCEPT ![2] = ZeroRec],
     [BaseRecs EXCEPT ![2].b0 = _DIRT + NOTEXIST],
     <<[BaseRecs[1] EXCEPT !.cmd = CmdP], BaseRecs[2]>>,
     <<Header(Chunk1, CmdP, 65535, TornSum)>>,
     Tail(Tail(BaseRecs))}

\* the records of a file of "any" content: headers with and without a known
\* command, with counts and hashes that match or not, data records, zero bytes
AnyRecs ==
    {Header(Chunk1, CmdA, 1, <<DataRec(ComputePathkey(<<"/", "a">>), WHITEOUT)>>),
     Header(Chunk1, CmdP, 2, TornSum),
     Header(Chunk0, CmdS, 0, <<>>),
     Header(Chunk1, 0, 1, TornSum),
     DataRec(ComputePathkey(<<"/", "a">>), WHITEOUT),
     DataRec(ComputePathkey(<<"/", "b">>), NOTEXIST),
     DataRec(ComputePathkey(<<"/", "a">>), 0),
     ZeroRec,
     [b0 |-> Chunk1, key |-> TornKey]}

\* the partial record a file may end with
AnyTails ==
    {<<>>, <<[b0 |-> Chunk1, len |-> 1]>>, <<[b0 |-> _DIRT + WHITEOUT, len |-> Pathkeylen - 1]>>}

AnyFiles ==
    {[recs |-> r, tail |-> tl] :
        r \in UNION {[1..n -> AnyRecs] : n \in 0..AnyLen}, tl \in AnyTails}

\* the file of a map that nothing was done with yet is replaced, once
Damage(F, how, ts) ==
    /\ Busy = {}
    /\ hist = "open"
    /\ last.op = "OpenPathmap"
    /\ file' = F
    /\ hist' = how
    /\ txns' = ts
    /\ last' = NoResult
    /\ UNCHANGED <<vm, dl, ofs, fails, writes, writemux, lock, th>>

NextReplay ==
    \/ \E t1, t2 \in GoodTxns, bad \in BadTxns :
           Damage([recs |-> t1.recs \o bad \o t2.recs, tail |-> <<>>],
                  "damaged", <<t1.txn, t2.txn>>)
    \/ \E F \in AnyFiles : Damage(F, "any", <<>>)
    \/ Reopen(FileLen(file)) /\ UNCHANGED <<hist, txns>>

SpecReplay == Init /\ [][NextReplay]_vars

\* C17: whatever the readable file holds, OpenPathmap returns success; a
\* transaction whose record count or cumulative hash does not validate changes
\* nothing in the map, and the valid transactions before and after it are
\* applied.
C17_ReplayNeverFails ==
    last.op = "OpenPathmap" =>
        /\ last.n = 0
        /\ hist = "damaged" => vm = ReplayOf(txns, <<>>)

\* OpenPathmap has replayed a file with an invalid transaction between two
\* valid ones, and the map holds what the valid one behind it has set
C17_Witness ==
    /\ last.op = "OpenPathmap"
    /\ hist = "damaged"
    /\ Len(txns) = 2
    /\ \E k \in DOMAIN vm :
           /\ k \in DOMAIN txns[2].tmp
           /\ vm[k] = txns[2].tmp[k]
           /\ k \notin DOMAIN txns[1].tmp

(***************************************************************************)
(* SpecUnknown: the client passes Set and SetIf every kind of value, those *)
(* above _MAXVIS too (the call panics and stores nothing), and the map may *)
(* first be opened on a file whose valid transaction holds a record of     *)
(* value UNKNOWN.  No storage call fails.                                  *)
(***************************************************************************)
UnknownVals == {0, WHITEOUT, NOTEXIST, UNKNOWN, _DIRT + UNKNOWN}

\* a file of one valid transaction with a record of value UNKNOWN for "/a" and
\* one of value WHITEOUT for "/b"
UnknownFile ==
    [recs |-> TxnWritten([k \in LogKeys |-> IF k[2][2] = "a" THEN UNKNOWN ELSE WHITEOUT],
                         <<ComputePathkey(<<"/", "a">>), ComputePathkey(<<"/", "b">>)>>,
                         FALSE).recs,
     tail |-> <<>>]

NextUnknown ==
    \/ \E p \in LogPaths, v \in UnknownVals :
           hist # "file" /\ Busy = {} /\ Set(p, v) /\ UNCHANGED <<hist, txns>>
    \/ \E p \in LogPaths, v \in UnknownVals :
           hist # "file" /\ Busy = {} /\ SetIf(p, v) /\ UNCHANGED <<hist, txns>>
    \/ hist # "file" /\ Busy = {} /\ Purge /\ UNCHANGED <<hist, txns>>
    \/ Damage(UnknownFile, "file", <<>>)
    \/ hist = "file" /\ Reopen(FileLen(file)) /\ hist' = "any" /\ UNCHANGED txns
    \/ \E sync \in BOOLEAN :
           /\ hist # "file"
           /\ WriteCall(1, sync, Cardinality(DOMAIN vm))
           /\ UNCHANGED <<hist, txns>>
    \/ WriteMuxLock(1) /\ UNCHANGED <<hist, txns>>
    \/ WriteTest(1) /\ UNCHANGED <<hist, txns>>
    \/ \E ko \in OutOrders : WriteBegin(1, ko) /\ UNCHANGED <<hist, txns>>
    \/ \E r \in WriteSuccesses : IoWrite(1, r) /\ UNCHANGED <<hist, txns>>
    \/ IoFsync(1, 0) /\ UNCHANGED <<hist, txns>>
    \/ IoTruncate(1, 0) /\ UNCHANGED <<hist, txns>>
    \/ \E ke \in OutOrders : WriteEnd(1, ke) /\ UNCHANGED <<hist, txns>>

SpecUnknown == Init /\ [][NextUnknown]_vars

\* C18: no cell of the map has the value bits UNKNOWN, and every data record
\* Write puts in the log carries WHITEOUT, OPAQUE or NOTEXIST.
C18_UnknownNeverStored ==
    /\ \A k \in DOMAIN vm : Mask(vm[k]) # UNKNOWN
    /\ \A t \in Threads :
           /\ \A k \in DOMAIN th[t].out : Mask(th[t].out[k]) \in {WHITEOUT, OPAQUE, NOTEXIST}
           /\ \A c \in Range(th[t].chunks) :
                  \A i \in 2..Len(c) :
                      /\ Dirt(c[i].b0) # 0
                      /\ Mask(c[i].b0) \in {WHITEOUT, OPAQUE, NOTEXIST}

\* the map was opened on the file with the UNKNOWN record and Write is about
\* to put a NOTEXIST record and a WHITEOUT record in the log
C18_Witness ==
    /\ hist = "any"
    /\ vm # <<>>
    /\ \E t \in Threads :
           /\ th[t].pc = "write"
           /\ \E k1, k2 \in DOMAIN th[t].out :
                  Mask(th[t].out[k1]) = NOTEXIST /\ Mask(th[t].out[k2]) = WHITEOUT

(***************************************************************************)
(* What Purge removes and what it leaves (checked under SpecUnknown)       *)
(***************************************************************************)
\* the cells Purge is to remove: DIRT = 0 and a kind other than WHITEOUT, OPAQUE
Purgeable(m) == {k \in DOMAIN m : Dirt(m[k]) = 0 /\ Mask(m[k]) \notin {WHITEOUT, OPAQUE}}

\* C19: Purge removes exactly the cells with DIRT = 0 and a kind other than
\* WHITEOUT or OPAQUE, leaves every other cell with its value, and leaves the
\* dirty list, ofs and the log file unchanged.
C19_PurgeExact ==
    [][Purge =>
          /\ DOMAIN vm' = DOMAIN vm \ Purgeable(vm)
          /\ \A k \in DOMAIN vm' : vm'[k] = vm[k]
          /\ dl' = dl
          /\ ofs' = ofs
          /\ file' = file]_vars

\* Purge can be called on a map with a clean NOTEXIST cell, which it removes,
\* and a clean WHITEOUT cell, which it leaves, over a log that is not empty
C19_Witness ==
    /\ Busy = {}
    /\ LockFree(lock)
    /\ ofs > 0
    /\ \E k1, k2 \in DOMAIN vm :
           /\ vm[k1] = NOTEXIST
           /\ vm[k2] = WHITEOUT

(***************************************************************************)
(* SpecDump: the map is opened on a file with valid and invalid            *)
(* transactions and a partial record, the client sets cells, and Dump and  *)
(* DumpMem are called.  What they print is not part of the state.          *)
(***************************************************************************)
\* the files: a valid transaction, then nothing or an invalid transaction, then
\* nothing or a partial record
DumpFiles ==
    {[recs |-> t.recs \o bad, tail |-> tl] :
        t \in GoodTxns, bad \in BadTxns \cup {<<>>}, tl \in AnyTails}

\* the loop of Dump over dumpTransaction, which scans the file as readTransaction
\* does: n is what the last dumpTransaction returned, ofs the local offset
DumpScan(F) == read(F)

\* a dumpTransaction that counts the records in pm.ofs, as readTransaction does
DumpOfsShared(o, r) == o + r.ofs

\* pm.ofs after Dump scanned the file with result r: the scan counts in *pofs
DumpOfs(o, r) == o

\* Pathmap.Dump: takes no lock
Dump ==
    /\ LET r == DumpScan(file)
       IN  /\ ofs' = DumpOfs(ofs, r)
           /\ last' = Returned("Dump", IF 0 > r.n THEN r.n ELSE 1)
    /\ UNCHANGED <<vm, dl, file, fails, writes, writemux, lock, th>>

\* Pathmap.DumpMem: takes no lock
DumpMem ==
    /\ last' = Returned("DumpMem", 0)
    /\ UNCHANGED <<vm, dl, ofs, file, fails, writes, writemux, lock, th>>

NextDump ==
    \/ \E F \in DumpFiles : Damage(F, "file", <<>>)
    \/ hist = "file" /\ Reopen(FileLen(file)) /\ hist' = "any" /\ UNCHANGED txns
    \/ \E p \in LogPaths, v \in LogVals :
           hist = "any" /\ Set(p, v) /\ UNCHANGED <<hist, txns>>
    \/ hist = "any" /\ Dump /\ UNCHANGED <<hist, txns>>
    \/ hist = "any" /\ DumpMem /\ UNCHANGED <<hist, txns>>

SpecDump == Init /\ [][NextDump]_vars

\* C20: Dump and DumpMem do not mutate state: after either one the map, the
\* dirty list, ofs and the log file are the same as before the call, whatever
\* the file contains.
C20_DumpDoesNotMutate ==
    [][(Dump \/ DumpMem) =>
          /\ vm' = vm
          /\ dl' = dl
          /\ ofs' = ofs
          /\ file' = file]_vars

\* Dump has returned 1 on a file with an invalid transaction and a partial
\* record, under a map with a dirty cell
C20_Witness ==
    /\ last = Returned("Dump", 1)
    /\ file.tail # <<>>
    /\ Len(file.recs) > 2
    /\ ofs > 0
    /\ dl # <<>>
    /\ \E k \in DOMAIN vm : vm[k] = WHITEOUT

(***************************************************************************)
(* Torn transactions during replay (checked under SpecReplay)              *)
(***************************************************************************)
\* the position of the first record at or after p that is not a data record
RECURSIVE SkipData(_, _)
SkipData(F, p) ==
    IF p < Len(F.recs) /\ Dirt(F.recs[p + 1].b0) # 0 THEN SkipData(F, p + 1) ELSE p

\* whether a transaction is torn at position i of F: a first chunk 'P' with no
\* more data records than it declares, and a '1' where its next chunk is to be
TornAt(F, i) ==
    /\ i < Len(F.recs)
    /\ F.recs[i + 1].b0 = Chunk1
    /\ CmdOf(F.recs[i + 1]) = CmdP
    /\ SkipData(F, i + 1) < Len(F.recs)
    /\ F.recs[SkipData(F, i + 1) + 1].b0 = Chunk1
    /\ SkipData(F, i + 1) - (i + 1) <= F.recs[i + 1].cnt

\* C21: when replay finds a '1' where a '0' header is expected, or a header
\* such as '1' 'P' 0xffff without its records, the transaction in progress is
\* aborted with nothing applied, the '1' header is not consumed, and the
\* transaction that begins there is parsed from it and applied if valid.
C21_TornAbortResumes ==
    (last.op = "OpenPathmap" /\ hist = "damaged") =>
        \A i \in 0..(Len(file.recs) - 1) :
            TornAt(file, i) =>
                LET q == SkipData(file, i + 1)
                    pre == read([recs |-> SubSeq(file.recs, 1, i), tail |-> <<>>])
                    t == readTransaction(file, i, pre.ofs, pre.vm)
                    u == readTransaction(file, q, Pathkeylen * q, pre.vm)
                IN  /\ t.n = 1
                    /\ t.vm = pre.vm
                    /\ t.pos = q
                    /\ t.ofs = Pathkeylen * q
                    /\ u.vm = Commit(pre.vm, txns[2].cmd, txns[2].tmp)
                    /\ vm = u.vm

\* OpenPathmap has replayed a file with a header '1' 'P' 0xffff between two
\* valid transactions, and the map holds what the one behind it has set
C21_Witness ==
    /\ last.op = "OpenPathmap"
    /\ hist = "damaged"
    /\ \E i \in 0..(Len(file.recs) - 1) :
           /\ TornAt(file, i)
           /\ file.recs[i + 1].cnt = 65535
           /\ i > 0
    /\ \E k \in DOMAIN vm : k \in DOMAIN txns[2].tmp /\ k \notin DOMAIN txns[1].tmp

(***************************************************************************)
(* What a valid transaction does to the map (checked under SpecReplay)     *)
(***************************************************************************)
\* the keys of the records of transaction x with a value in vs
KeysWith(x, vs) == {k \in DOMAIN x.tmp : x.tmp[k] \in vs}

\* the map after the valid transaction x is applied to m, as the claim has it
Applied(m, x) ==
    LET put == KeysWith(x, {WHITEOUT, OPAQUE})
        old == IF x.cmd = CmdS THEN {} ELSE DOMAIN m \ KeysWith(x, {NOTEXIST})
    IN  [k \in old \cup put |-> IF k \in put THEN x.tmp[k] ELSE m[k]]

\* C22: a valid transaction ending in 'S' makes the map exactly its WHITEOUT and
\* OPAQUE records; one ending in 'A' keeps the entries there are and, for each
\* record, upserts the key for WHITEOUT/OPAQUE, deletes it for NOTEXIST and
\* changes nothing for an index value.
C22_ApplyTransaction ==
    (last.op = "OpenPathmap" /\ hist = "damaged") =>
        vm = Applied(Applied(<<>>, txns[1]), txns[2])

\* OpenPathmap has replayed an insert of a key and then an 'A' transaction with
\* an index value for that key, which is still in the map
C22_Witness ==
    /\ last.op = "OpenPathmap"
    /\ hist = "damaged"
    /\ txns[2].cmd = CmdA
    /\ \E k \in DOMAIN vm :
           /\ k \in DOMAIN txns[1].tmp
           /\ k \in DOMAIN txns[2].tmp
           /\ txns[2].tmp[k] = 0
           /\ vm[k] = WHITEOUT

(***************************************************************************)
(* Commit atomicity (checked under SpecReplay)                             *)
(***************************************************************************)
\* the temporary map of the data records rs: a later record of a key wins
RecsTmp(rs) ==
    [k \in {<<0, rs[i].key>> : i \in DOMAIN rs} |->
        LET i == CHOOSE j \in DOMAIN rs :
                     /\ <<0, rs[j].key>> = k
                     /\ \A h \in DOMAIN rs : <<0, rs[h].key>> = k => h <= j
        IN  Mask(rs[i].b0)]

\* The transaction written at position p of F, chunk by chunk: whether every
\* chunk is there with its header, as many data records as it declares and the
\* hash of all data records so far, up to a chunk with command 'S' or 'A'.
\* chi is the indicator the chunk at p is to have, rs the records before it.
RECURSIVE Written(_, _, _, _)
Written(F, p, chi, rs) ==
    IF ~(p < Len(F.recs)) THEN [ok |-> FALSE, cmd |-> 0, recs |-> rs]
    ELSE LET h == F.recs[p + 1]
             c == IF "cnt" \in DOMAIN h THEN h.cnt ELSE 0
             all == rs \o SubSeq(F.recs, p + 2, p + 1 + c)
         IN  IF \/ h.b0 # chi
                \/ ~IsCmd(CmdOf(h))
                \/ SkipData(F, p + 1) < p + 1 + c
                \/ h.sum # all
             THEN [ok |-> FALSE, cmd |-> 0, recs |-> rs]
             ELSE IF CmdOf(h) = CmdP THEN Written(F, p + 1 + c, Chunk0, all)
             ELSE [ok |-> TRUE, cmd |-> CmdOf(h), recs |-> all]

\* the positions of F where a transaction begins
Begins(F) ==
    {i \in 0..(Len(F.recs) - 1) : IsExpectedHeader(FALSE, F.recs[i + 1])}

\* C23: replay applies all records of a transaction or none: all of them when
\* every chunk has as many records as it declares and the hash of all records
\* so far, and none when a chunk is missing or short.
C23_CommitAtomic ==
    (last.op = "OpenPathmap" /\ hist = "damaged") =>
        \A i \in Begins(file) :
            LET m == read([recs |-> SubSeq(file.recs, 1, i), tail |-> <<>>]).vm
                w == Written(file, i, Chunk1, <<>>)
                t == readTransaction(file, i, Pathkeylen * i, m)
            IN  t.vm = IF w.ok THEN Applied(m, [cmd |-> w.cmd, tmp |-> RecsTmp(w.recs)])
                       ELSE m

\* OpenPathmap has replayed a file where a transaction of two chunks lacks its
\* last record and the transaction of two chunks after it is complete
C23_Witness ==
    /\ last.op = "OpenPathmap"
    /\ hist = "damaged"
    /\ Cardinality(DOMAIN vm) = 2
    /\ Cardinality(DOMAIN txns[1].tmp) = 1
    /\ \E i, j \in Begins(file) :
           /\ i < j
           /\ CmdOf(file.recs[i + 1]) = CmdP
           /\ CmdOf(file.recs[j + 1]) = CmdP
           /\ ~Written(file, i, Chunk1, <<>>).ok
           /\ Written(file, j, Chunk1, <<>>).ok
           /\ Len(Written(file, i, Chunk1, <<>>).recs) = 1

(***************************************************************************)
(* The transactions Write emits (checked under SpecCompact)                *)
(***************************************************************************)
\* the data records of the chunks cs[1..n]
RECURSIVE DataUpTo(_, _)
DataUpTo(cs, n) == IF n = 0 THEN <<>> ELSE DataUpTo(cs, n - 1) \o Tail(cs[n])

\* whether the chunks cs are a well-formed transaction of the given kind
WellFormed(cs, incremental) ==
    \A n \in DOMAIN cs :
        LET h == cs[n][1]
        IN  /\ h.b0 = IF n = 1 THEN Chunk1 ELSE Chunk0
            /\ h.cmd = IF n < Len(cs) THEN CmdP ELSE IF incremental THEN CmdA ELSE CmdS
            /\ h.cnt = Len(cs[n]) - 1
            /\ h.sum = DataUpTo(cs, n)
            /\ Dirt(h.b0) = 0
            /\ \A i \in 2..Len(cs[n]) : Dirt(cs[n][i].b0) # 0

\* C24: every transaction Write emits has '1' in its first header and '0' in
\* the later ones, 'P' in every chunk but the last, which has 'A' (incremental)
\* or 'S' (full), in each header the number of data records that follow it and
\* the hash of all data records up to and including its chunk, the high bit of
\* byte 0 clear in every header and set in every data record.
C24_TransactionWellFormed ==
    [][\A t \in Threads :
          (th[t].pc = "begin" /\ th'[t].pc = "write") =>
              WellFormed(th'[t].chunks, th[t].inc)]_vars

\* Write is about to emit a full transaction of two chunks
C24_Witness ==
    \E t \in Threads :
        /\ th[t].pc = "write"
        /\ ~th[t].inc
        /\ Len(th[t].chunks) = 2
        /\ th[t].chunks[1][1].b0 = Chunk1

\* C25: Write splits a transaction into chunks of at most BufRecs records (4096
\* in the program), the header included, so that a chunk takes at most
\* BufRecs * Pathkeylen bytes of the file (64 KiB), and a transaction of exactly
\* BufRecs data records is written as exactly two chunks.
C25_ChunkingBound ==
    [][\A t \in Threads :
          (th[t].pc = "begin" /\ th'[t].pc = "write") =>
              /\ \A c \in Range(th'[t].chunks) :
                     /\ Len(c) <= BufRecs
                     /\ Pathkeylen * Len(c) <= Pathkeylen * BufRecs
              /\ Cardinality(DOMAIN th'[t].out) = BufRecs => Len(th'[t].chunks) = 2]_vars

\* Write is about to emit a transaction of BufRecs data records in two chunks
C25_Witness ==
    \E t \in Threads :
        /\ th[t].pc = "write"
        /\ Cardinality(DOMAIN th[t].out) = BufRecs
        /\ Len(th[t].chunks) = 2
        /\ th[t].ofsw = th[t].ofs0

(***************************************************************************)
(* The content of a transaction (checked under SpecCompact)                *)
(***************************************************************************)
\* whether the data records of the chunks cs are one record for each key of S,
\* with the kind of the key's cell in m when that is WHITEOUT or OPAQUE and
\* NOTEXIST otherwise
RecordsOf(cs, S, m) ==
    LET rs == DataUpTo(cs, Len(cs))
    IN  /\ Len(rs) = Cardinality(S)
        /\ \A k \in S :
               \E i \in DOMAIN rs :
                   /\ <<0, rs[i].key>> = k
                   /\ Mask(rs[i].b0) = PersistentKind(m, k)

\* C26: an incremental transaction has exactly one record for each key that was
\* dirty at begin, with the key's cell if its kind is WHITEOUT or OPAQUE and
\* NOTEXIST otherwise, so that a key of another kind is absent after the log
\* is opened again; a full transaction has exactly the keys of the map whose
\* kind is WHITEOUT or OPAQUE.
C26_TransactionContent ==
    [][\A t \in Threads :
          (th[t].pc = "begin" /\ th'[t].pc \in {"write", "end"}) =>
              IF th[t].inc
              THEN /\ RecordsOf(th'[t].chunks, DirtyKeys(vm), vm)
                   /\ \A k \in DirtyKeys(vm) :
                          Mask(vm[k]) \notin {WHITEOUT, OPAQUE} =>
                              k \notin DOMAIN read(FsWrite(file, Flat(th'[t].chunks),
                                                           th[t].ofs0)).vm
              ELSE RecordsOf(th'[t].chunks, DurableKeys(vm), vm)]_vars

\* Write is about to emit an incremental transaction with a NOTEXIST record for
\* a key that the log has as WHITEOUT and the map has with an index value
C26_Witness ==
    \E t \in Threads :
        /\ th[t].pc = "write"
        /\ th[t].inc
        /\ th[t].ofsw = th[t].ofs0
        /\ \E k \in DOMAIN th[t].out :
               /\ Mask(th[t].out[k]) = NOTEXIST
               /\ k \in DOMAIN vm
               /\ vm[k] = 0
               /\ k \in DOMAIN read(file).vm

(***************************************************************************)
(* The storage calls of a Write, in order (checked under Spec)             *)
(***************************************************************************)
\* C27: with sync, a transaction that wrote a chunk is followed by an fsync
\* after its last chunk write and before any truncate, and in the compacting
\* case by a second fsync after the truncate; ENOSYS from fsync counts as
\* success (Write goes on, returns success and updates ofs), any other fsync
\* error is returned.
C27_SyncDiscipline ==
    [][\A t \in Threads :
          /\ (th[t].pc = "write" /\ th'[t].pc # "write" /\ ~(0 > th'[t].n) /\ th[t].sync) =>
                 th'[t].pc = "fsync1"
          /\ (th'[t].pc = "trunc" /\ th[t].pc # "trunc" /\ th[t].sync) =>
                 th[t].pc = "fsync1"
          /\ (th[t].pc = "trunc" /\ th'[t].pc # "trunc" /\ ~(0 > th'[t].n) /\ th[t].sync) =>
                 th'[t].pc = "fsync2"
          /\ IoFsync(t, 0 - ENOSYS) =>
                 /\ ~(0 > th'[t].n)
                 /\ th'[t].pc = IF th[t].pc = "fsync1" /\ Truncate(th[t]) THEN "trunc" ELSE "end"
                 /\ th'[t].pc = "end" => th'[t].n = 1
          /\ \A e \in ErrCodes :
                 IoFsync(t, 0 - e) => (th'[t].pc = "end" /\ th'[t].n = 0 - e)
          /\ (WriteReturns(t) /\ 0 > th[t].n) => last' = Returned("Write", th[t].n)
          /\ (WriteReturns(t) /\ 0 < th[t].n) =>
                 (last' = Returned("Write", 1) /\ ofs' = th[t].ofsw)]_vars

\* a compacting Write with sync has truncated the file and is about to issue
\* its second fsync
C27_Witness ==
    \E t \in Threads :
        /\ th[t].pc = "fsync2"
        /\ th[t].sync
        /\ th[t].tx = 2
        /\ FileLen(file) = th[t].ofsw

\* C28: on the first storage failure inside a Write (a chunk write that returns
\* a negative code or is short, an fsync that fails with another code than
\* ENOSYS, a truncate that fails) the Write issues no further storage call, does
\* not start the second transaction of a compaction, and returns that error; a
\* short write is reported as -EIO.
C28_StopsAtFirstFailure ==
    [][\A t \in Threads :
          /\ \A len \in 1..BufRecs :
                 \A r \in WriteOutcomes(len) \ WriteOk(len) :
                     (IoWrite(t, r) /\ Len(Head(th[t].chunks)) = len) =>
                         /\ th'[t].pc = "end"
                         /\ th'[t].n = IF 0 > r.res THEN r.res ELSE 0 - EIO
          /\ \A e \in ErrCodes :
                 /\ IoFsync(t, 0 - e) => (th'[t].pc = "end" /\ th'[t].n = 0 - e)
                 /\ IoTruncate(t, 0 - e) => (th'[t].pc = "end" /\ th'[t].n = 0 - e)
          /\ (0 > th[t].n) =>
                 /\ th[t].pc = "end"
                 /\ file' = file
                 /\ th'[t] # th[t] =>
                        (WriteReturns(t) /\ last' = Returned("Write", th[t].n))]_vars

\* the first transaction of a compacting Write has failed with -EIO
C28_Witness ==
    \E t \in Threads :
        /\ th[t].pc = "end"
        /\ th[t].n = 0 - EIO
        /\ th[t].full
        /\ th[t].tx = 1
        /\ FileLen(file) > th[t].ofsw

InStorage(t) == th[t].pc \in {"write", "fsync1", "trunc", "fsync2"}

\* C30: a Write holds the map lock only inside its begin and end brackets and
\* the bloat test, never while a storage write, fsync or truncate is
\* outstanding, so that a caller that takes the map lock for Get or Set, or a
\* Purge, can proceed while a Write is blocked on storage.
C30_NoLockDuringStorage ==
    \A t \in Threads :
        InStorage(t) =>
            /\ lock \in {"free", "client"}
            /\ lock = "free" => (ENABLED ClientLock /\ ENABLED Purge)

\* a client holds the map lock and has Set a key while a Write has a storage
\* call outstanding
C30_Witness ==
    \E t \in Threads :
        /\ InStorage(t)
        /\ lock = "client"
        /\ th[t].touched # {}

(***************************************************************************)
(* SpecLive: two threads call Write and Purge while a client takes the map *)
(* lock for its Sets; storage calls may fail.  Both locks are sync.Mutex,  *)
(* which hands the lock to a goroutine that has waited for it (starvation  *)
(* mode), hence the strong fairness of the steps that take a lock; the     *)
(* storage calls return and the client releases the lock, hence the weak   *)
(* fairness of those steps.                                                *)
(***************************************************************************)
\* Purge is called: the thread waits for the map lock
PurgeCall(t) ==
    /\ th[t].pc = "idle"
    /\ th' = [th EXCEPT ![t] = [Idle EXCEPT !.pc = "purge"]]
    /\ UNCHANGED <<vm, dl, ofs, file, last, fails, writes, writemux, lock>>

\* Purge takes the map lock, removes the cells and returns
PurgeRun(t) ==
    /\ th[t].pc = "purge"
    /\ LockFree(lock)
    /\ vm' = PurgeMap(vm)
    /\ last' = NoResult
    /\ th' = [th EXCEPT ![t] = Idle]
    /\ UNCHANGED <<dl, ofs, file, fails, writes, writemux, lock>>

NextLive ==
    \/ ClientLock /\ UNCHANGED <<hist, txns>>
    \/ ClientUnlock /\ UNCHANGED <<hist, txns>>
    \/ \E p \in ConcPaths, v \in LostVals :
           lock = "client" /\ Set(p, v) /\ UNCHANGED <<hist, txns>>
    \/ \E t \in Threads : PurgeCall(t) /\ UNCHANGED <<hist, txns>>
    \/ \E t \in Threads : PurgeRun(t) /\ UNCHANGED <<hist, txns>>
    \/ \E t \in Threads, sync \in BOOLEAN :
           WriteCall(t, sync, Cardinality(ConcPaths)) /\ UNCHANGED <<hist, txns>>
    \/ \E t \in Threads : WriteMuxLock(t) /\ UNCHANGED <<hist, txns>>
    \/ \E t \in Threads : WriteTest(t) /\ UNCHANGED <<hist, txns>>
    \/ \E t \in Threads, ko \in OutOrders :
           WriteBegin(t, ko) /\ UNCHANGED <<hist, txns>>
    \/ \E t \in Threads, r \in WriteSuccesses :
           IoWrite(t, r) /\ UNCHANGED <<hist, txns>>
    \/ \E t \in Threads, r \in WriteFailures :
           IoWrite(t, r) /\ UNCHANGED <<hist, txns>>
    \/ \E t \in Threads, errc \in FsyncOutcomes :
           IoFsync(t, errc) /\ UNCHANGED <<hist, txns>>
    \/ \E t \in Threads, errc \in TruncateOutcomes :
           IoTruncate(t, errc) /\ UNCHANGED <<hist, txns>>
    \/ \E t \in Threads, ke \in OutOrders :
           WriteEnd(t, ke) /\ UNCHANGED <<hist, txns>>

\* every step of thread t that takes a lock, and every storage call of t
LockStep(t) ==
    \/ WriteMuxLock(t)
    \/ WriteTest(t)
    \/ \E ko \in OutOrders : WriteBegin(t, ko)
    \/ \E ke \in OutOrders : WriteEnd(t, ke)
    \/ PurgeRun(t)

StorageStep(t) ==
    \/ \E r \in WriteSuccesses : IoWrite(t, r)
    \/ IoFsync(t, 0)
    \/ IoTruncate(t, 0)

FairLive ==
    /\ WF_vars(ClientUnlock /\ UNCHANGED <<hist, txns>>)
    /\ \A t \in Threads :
           /\ SF_vars(LockStep(t) /\ UNCHANGED <<hist, txns>>)
           /\ WF_vars(StorageStep(t) /\ UNCHANGED <<hist, txns>>)

SpecLive == Init /\ [][NextLive]_vars /\ FairLive

\* C31: with threads that call Write and Purge and a client that runs Set under
\* the map lock, no deadlock between the write lock and the map lock is
\* reachable, and every Write and every Purge call eventually returns, provided
\* each storage call returns and the client releases the map lock.
C31_Progress ==
    \A t \in Threads : (th[t].pc # "idle") ~> (th[t].pc = "idle")

\* one thread is in Write and waits for the map lock that the client holds,
\* the other has called Purge
C31_Witness ==
    \E t1, t2 \in Threads :
        /\ th[t1].pc = "begin"
        /\ th[t2].pc = "purge"
        /\ lock = "client"
        /\ writemux = t1

(***************************************************************************)
(* Clean cells and the log (checked under Spec)                            *)
(***************************************************************************)
\* C32: while no Write is in progress, every key whose cell has DIRT = 0 or
\* that is absent from the map has in memory the kind (WHITEOUT, OPAQUE or
\* none) that a replay of the log file yields for it.
C32_CleanMeansDurable ==
    Busy = {} =>
        \A k \in LogKeys :
            ~(k \in DOMAIN vm /\ Dirt(vm[k]) # 0) =>
                PersistentKind(vm, k) = PersistentKind(read(file).vm, k)

(***************************************************************************)
(* Get and TryGet on the same path (checked under SpecGet)                 *)
(***************************************************************************)
PathEmpty == <<>>
AgreePaths == GetPaths \cup {PathEmpty}

\* what TryGet(p) gives, reported the way Get reports a value: OPAQUE as 0
\* and a missing key as UNKNOWN
TryGetAsGet(m, p) ==
    LET r == TryGet(m, p)
    IN  IF ~r.ok THEN UNKNOWN
        ELSE IF r.v = OPAQUE THEN 0
        ELSE r.v

\* C33 as stated: for every path string p (the empty path, paths without a
\* leading '/', with repeated '/' or with a trailing '/' included), the v of
\* Get(p) equals what TryGet(p) returns for the key of the whole string p, with
\* OPAQUE reported as 0 and a missing key reported as UNKNOWN.
C33_GetAgreesWithTryGet ==
    \A p \in AgreePaths : Get(vm, p).v = TryGetAsGet(vm, p)

\* C33: for every path p in canonical form, the v of Get(p) equals what
\* TryGet(p) returns for the key of p, with OPAQUE reported as 0 and a missing
\* key reported as UNKNOWN.
C33_GetAgreesWithTryGetCanonical ==
    \A p \in AgreePaths : Canonical(p) => Get(vm, p).v = TryGetAsGet(vm, p)

\* /d is stored OPAQUE and dirty and /d/e is stored with index 2: TryGet gives
\* (OPAQUE, true) and (2, true), Get gives 0 and 2; the root is not in the map
\* and both report it as missing
C33_Witness ==
    /\ TryGet(vm, PathD) = [v |-> OPAQUE, ok |-> TRUE]
    /\ Dirt(vm[ComputePathkey(PathD)]) # 0
    /\ Get(vm, PathD).v = 0
    /\ TryGet(vm, PathDE) = [v |-> 2, ok |-> TRUE]
    /\ Get(vm, PathDE).v = 2
    /\ ~TryGet(vm, PathRoot).ok
    /\ Get(vm, PathRoot).v = UNKNOWN

====
